---- MODULE Spec2Model ----
(***************************************************************************)
(* Model of the OpsBot relay tunnel.                                       *)
(*                                                                         *)
(*  Spec        the passthrough Sender (the hyco-ws TCP proxy whose code   *)
(*              is in Gitea_AzureRelayListener/README.md, lines 293-591):  *)
(*              one session per accepted local socket, connectWithRetry,   *)
(*              setupWebSocketHandlers, the write queue, the close paths.  *)
(*  SpecClient  the OpsBot client (client/relay_sender.js, lines 1-376):   *)
(*              connectWithRetry and initializeConnection.                 *)
(*                                                                         *)
(* Byte strings are modelled as ranges: a relay message is its arrival     *)
(* index and its length, a chunk is the half-open range [lo, hi) of one    *)
(* message, so data.slice keeps its real offsets and the program's sizes   *)
(* (1 MB, 512 KB) are used unscaled.                                       *)
(* Delays are kept in ticks of 1/32 ms, which represents every value the   *)
(* floating-point backoff computations take below the cap exactly.         *)
(***************************************************************************)
EXTENDS Integers, Sequences, FiniteSets, TLC

\* ---------------------------------------------------------------- bounds
MaxConns == 1
MaxMsgs == 1
MaxReconnects == 2
MaxSessions == 2
MaxListenerConns == 2
MaxReqs == 2
MaxSweepReqs == 1
MaxChunks == 1
MaxSweeps == 2
MaxHeaderLines == 2
MaxSigints == 1
MaxSignals == 2
MaxHealthReqs == 1
MaxCmds == 2
MaxRefused == 1
MaxServerConns == 2
MaxServerMsgs == 2
MaxServerSweeps == 7
MaxTasks == 2
MaxTicks == 3

\* ------------------------------------------------------ program constants
MAX_BUFFER_SIZE == 1048576
maxRetries == 10
initialRetryDelay == 200
maxRetryCount == 10
maxRetryDelay == 5000

TicksPerMs == 2 ^ 5

Min(a, b) == IF a < b THEN a ELSE b

\* Connection ids of the Sender: connectionCounter++ numbers them from 1.
Conns == 1..MaxSessions

\* Sizes of the relay messages the environment delivers: small, exactly the
\* threshold, just above it, and a multiple of the chunk size above it.
MsgSizes == {100, MAX_BUFFER_SIZE, MAX_BUFFER_SIZE + 1, 3 * (MAX_BUFFER_SIZE \div 2)}

\* Close codes a relay 'close' event can carry.
CloseCodes == {1000, 1006, 1011}

VARIABLES
    \* ---- passthrough Sender
    connectionCounter,  \* let connectionCounter
    activeConnections,  \* keys of the activeConnections Map
    phase,              \* per connection: position of connectWithRetry
    retryCount,         \* per connection: the retryCount argument
    timerDelay,         \* per connection: delay of the pending retry timer (ticks)
    wsState,            \* per connection: readyState of its relay WebSocket
    sock,               \* per connection: state of the local socket
    pendingWrites,      \* per connection: let pendingWrites
    isWriting,          \* per connection: let isWriting
    drainH,             \* per connection: listeners registered by socket.once('drain')
    immediates,         \* per connection: pending setImmediate(processWriteQueue)
    needDrain,          \* per connection: a write returned false, 'drain' not yet emitted
    wsTimeout,          \* per connection: the 30 s timer of setupWebSocketHandlers
    \* ---- history of the Sender (observations, never read by the handlers)
    recv,               \* per connection: lengths of the relay messages received
    pushed,             \* per connection: every chunk appended to pendingWrites
    wlog,               \* per connection: the chunks socket.write accepted, in order
    blockedWrite,       \* per connection: a write was issued while 'drain' was awaited
    wsClose,            \* per connection: code of the relay 'close' event (0: none)
    localActivity,      \* per connection: local data arrived since the timer started
    idleClosed,         \* per connection: "no" or how the 30 s timer closed the relay
    closeSent,          \* per connection: code of the ws.close that started closing (0: none)
    \* ---- OpsBot client
    cPc,                \* position of connectWithRetry / initializeConnection
    cRetry,             \* let retryCount
    cDelay,             \* let delay (ticks)
    connected,          \* let connected
    cAttempts,          \* history: attempts of the current connectWithRetry call
    cWaits,             \* history: waits of the current connectWithRetry call
    cFailure,           \* history: kind of the last failed attempt
    cRounds,            \* history: number of reconnects started
    \* ---- Listener
    lConnectionCounter, \* let connectionCounter
    lActiveConnections, \* the activeConnections Map: id -> { ws, lastActivity }
    lWs,                \* per connection: readyState of its relay WebSocket
    lReqs,              \* per connection: the requests of its 'message' events
    lNow,               \* Date.now(), in heartbeat intervals
    \* ---- history of the Listener
    lSent,              \* per connection: the relay messages passed to ws.send
    lCloseSent,         \* per connection: code of the ws.close that started closing
    lLastMsg,           \* per connection: time of its last relay message
    lSwept,             \* ids sendHeartbeats has deleted
    lThrew,             \* ids whose ws.ping() threw in the last sendHeartbeats
    lOverwritten,       \* ids whose entry a later activeConnections.set replaced
    \* ---- the Listener's 'message' handler, one message followed through it
    pPc,                \* position in the handler
    requestText,        \* data.toString(): the lines of the relay message
    httpRequest,        \* const httpRequest = { method, path, headers }
    options,            \* const options = { path, method, headers }
    written,            \* the lines passed to req.write (<<>>: no write)
    \* ---- the Listener process and its shutdown
    heartbeatInterval,  \* TRUE while the setInterval of sendHeartbeats is set
    exitTimers,         \* pending setTimeout(() => process.exit(0), 1000)
    exitCode,           \* <<>> while the process runs, <<code>> once it exited
    shutdownClosed,     \* connections sent close(1000, 'Server shutting down')
    \* ---- the health-check wrapper
    nodeEnv,            \* process.env.NODE_ENV ("unset" before the process starts)
    listenerProcess,    \* the child: "none", "running", "killed", "closed"
    hSignals,           \* the SIGINT / SIGTERM the wrapper has handled
    hExitTimers,        \* pending setTimeout(() => process.exit(0), 1000)
    hExitCode,          \* <<>> while the wrapper runs, <<code>> once it exited
    hFatal,             \* the uncaughtException handler ran
    hResponses,         \* the responses of the health server
    \* ---- the OpsBot client's commands
    commandId,          \* let commandId = 1
    pendingCommands,    \* the ids that have a callback in the pendingCommands Map
    cmdTimers,          \* the ids whose 30 s timer has not fired yet
    cmdInFlight,        \* the ids sent whose response has not arrived yet
    cmdSettled,         \* per id: the calls of resolve / reject, in order
    cmdRefused,         \* sendCommand calls rejected with 'Not connected to server'
    \* ---- the Sender's local -> relay direction
    sentOn,             \* per connection: the readyStates ws.send(data) was called in
    \* ---- the OpsBot client's reconnect
    reconnectTimers,    \* pending setTimeout(() => initializeConnection(), 5000)
    \* ---- the OpsBot server
    connections,        \* the connections Map: id -> [lastActivity, isProbe]
    sWs,                \* per connection: readyState of its socket
    sNow,               \* Date.now() of the server, in ms
    sLog,               \* per connection: each message received with the replies sent
    sRemoved,           \* per connection: what deleted its entry ("none" if nothing)
    \* ---- the deployment agent
    agentStatus,        \* let agentStatus = 'idle'
    aTicks,             \* calls of pollForTasks by the interval so far
    aPolls,             \* GET /api/tasks/next requests without a response yet
    aTask,              \* per task id: its type and the position of processTask
    deployments,        \* the deployments Map: task id -> status
    aReports            \* per task id: the statuses passed to updateTaskStatus

senderVars == <<connectionCounter, activeConnections, phase, retryCount, timerDelay,
                wsState, sock, pendingWrites, isWriting, drainH, immediates,
                needDrain, wsTimeout, recv, pushed, wlog, blockedWrite, wsClose,
                localActivity, idleClosed, closeSent>>
clientVars == <<cPc, cRetry, cDelay, connected, cAttempts, cWaits, cFailure, cRounds>>
listenerVars == <<lConnectionCounter, lActiveConnections, lWs, lReqs, lNow, lSent,
                  lCloseSent, lLastMsg, lSwept, lThrew, lOverwritten>>
parseVars == <<pPc, requestText, httpRequest, options, written>>
shutdownVars == <<heartbeatInterval, exitTimers, exitCode, shutdownClosed>>
healthVars == <<nodeEnv, listenerProcess, hSignals, hExitTimers, hExitCode, hFatal,
                hResponses>>
commandVars == <<commandId, pendingCommands, cmdTimers, cmdInFlight, cmdSettled,
                 cmdRefused>>
serverVars == <<connections, sWs, sNow, sLog, sRemoved>>
agentVars == <<agentStatus, aTicks, aPolls, aTask, deployments, aReports>>
vars == <<senderVars, clientVars, listenerVars, parseVars, shutdownVars, healthVars,
          commandVars, sentOn, reconnectTimers, serverVars, agentVars>>

\* The variables each component leaves alone.
notSender == <<agentVars, serverVars, reconnectTimers, sentOn, commandVars, healthVars, clientVars, listenerVars, parseVars, shutdownVars>>
notClient == <<agentVars, serverVars, reconnectTimers, sentOn, commandVars, healthVars, senderVars, listenerVars, parseVars, shutdownVars>>
notListener == <<agentVars, serverVars, reconnectTimers, sentOn, commandVars, healthVars, senderVars, clientVars, parseVars, shutdownVars>>
notParse == <<agentVars, serverVars, reconnectTimers, sentOn, commandVars, healthVars, senderVars, clientVars, listenerVars, shutdownVars>>
notHealth == <<agentVars, serverVars, reconnectTimers, sentOn, senderVars, clientVars, listenerVars, parseVars, shutdownVars, commandVars>>
notServer == <<senderVars, clientVars, listenerVars, parseVars, shutdownVars, healthVars,
               commandVars, sentOn, reconnectTimers, agentVars>>
notAgent == <<senderVars, clientVars, listenerVars, parseVars, shutdownVars, healthVars,
              commandVars, sentOn, reconnectTimers, serverVars>>
notCommands == <<agentVars, serverVars, reconnectTimers, sentOn, senderVars, listenerVars, parseVars, shutdownVars, healthVars>>

\* ------------------------------------------------------------ the Sender

\* const chunkSize = MAX_BUFFER_SIZE / 2
chunkSize == MAX_BUFFER_SIZE \div 2

\* for (let i = 0; i < data.length; i += chunkSize)
\*     pendingWrites.push(data.slice(i, Math.min(i + chunkSize, data.length)))
RECURSIVE SliceLoop(_, _, _)
SliceLoop(m, i, len) ==
    IF i < len
    THEN <<[m |-> m, lo |-> i, hi |-> Min(i + chunkSize, len)]>>
             \o SliceLoop(m, i + chunkSize, len)
    ELSE <<>>

\* ChunksOf with the threshold test written >= instead of >.
ChunksOfInclusive(m, len) ==
    IF len >= MAX_BUFFER_SIZE
    THEN SliceLoop(m, 0, len)
    ELSE <<[m |-> m, lo |-> 0, hi |-> len]>>

\* The chunks the 'message' handler appends for message number m of length len.
ChunksOf(m, len) ==
    IF len > MAX_BUFFER_SIZE
    THEN SliceLoop(m, 0, len)
    ELSE <<[m |-> m, lo |-> 0, hi |-> len]>>

\* The write-queue state of one session, as processWriteQueue sees it.
Q(c) == [pw |-> pendingWrites[c], isWriting |-> isWriting[c], drainH |-> drainH[c],
         imm |-> immediates[c], need |-> needDrain[c], sk |-> sock[c],
         wlog |-> wlog[c], blocked |-> blockedWrite[c], ret |-> TRUE]

\* socket.write(data): on a writable socket the chunk is accepted and the call
\* returns true, or false when the buffer is over its high-water mark; after
\* socket.end() the write is rejected (write after end: the socket errors);
\* on a destroyed socket it is rejected silently. Both rejections return false.
SocketWrite(q, d) ==
    LET q1 == [q EXCEPT !.blocked = @ \/ q.need] IN
    IF q.sk = "open"
    THEN { [q1 EXCEPT !.wlog = Append(@, d), !.ret = TRUE],
           [q1 EXCEPT !.wlog = Append(@, d), !.ret = FALSE, !.need = TRUE] }
    ELSE IF q.sk \in {"ending", "finished"}
    THEN { [q1 EXCEPT !.ret = FALSE, !.sk = "errored"] }
    ELSE { [q1 EXCEPT !.ret = FALSE] }

\* The second try block of processWriteQueue: socket.write(data) again, then
\* setImmediate(processWriteQueue), at once or from a 'drain' listener.
SecondWrite(q, d) ==
    { IF w.ret
      THEN [w EXCEPT !.isWriting = FALSE, !.imm = @ + 1]
      ELSE [w EXCEPT !.drainH = Append(@, "immediate")]
      : w \in SocketWrite(q, d) }

\* const processWriteQueue = () => { ... }: the set of states it can leave, one
\* for each way the socket answers the writes. The first try block recurses
\* synchronously after a write that returned true; the second try block then
\* writes the same data again. socket.write of a Buffer does not throw, so the
\* catch blocks are not taken.
RECURSIVE processWriteQueue(_)
processWriteQueue(q) ==
    IF Len(q.pw) = 0 \/ q.isWriting
    THEN {q}
    ELSE LET data == Head(q.pw)
             q0 == [q EXCEPT !.isWriting = TRUE, !.pw = Tail(@)]
             first == UNION { IF w.ret
                              THEN processWriteQueue([w EXCEPT !.isWriting = FALSE])
                              ELSE {[w EXCEPT !.drainH = Append(@, "direct")]}
                              : w \in SocketWrite(q0, data) }
         IN  UNION { SecondWrite(f, data) : f \in first }

\* The listeners of one 'drain' event, in registration order.
RECURSIVE RunDrain(_, _)
RunDrain(hs, q) ==
    IF hs = <<>>
    THEN {q}
    ELSE LET after == IF Head(hs) = "direct"
                      THEN processWriteQueue([q EXCEPT !.isWriting = FALSE])
                      ELSE {[q EXCEPT !.isWriting = FALSE, !.imm = @ + 1]}
         IN  UNION { RunDrain(Tail(hs), n) : n \in after }

\* Write the queue state r back to session c.
StoreQ(c, r) ==
    /\ pendingWrites' = [pendingWrites EXCEPT ![c] = r.pw]
    /\ isWriting' = [isWriting EXCEPT ![c] = r.isWriting]
    /\ drainH' = [drainH EXCEPT ![c] = r.drainH]
    /\ immediates' = [immediates EXCEPT ![c] = r.imm]
    /\ needDrain' = [needDrain EXCEPT ![c] = r.need]
    /\ sock' = [sock EXCEPT ![c] = r.sk]
    /\ wlog' = [wlog EXCEPT ![c] = r.wlog]
    /\ blockedWrite' = [blockedWrite EXCEPT ![c] = r.blocked]

queueVars == <<pendingWrites, isWriting, drainH, immediates, needDrain, wlog,
               blockedWrite>>
retryVars == <<phase, retryCount, timerDelay>>

\* ws.close(code): OPEN goes to CLOSING, anything else is left as it is.
WsCloseCall(s) == IF s = "OPEN" THEN "CLOSING" ELSE s
\* The code the close handshake carries after ws.close(code): the code of the
\* call that found the socket OPEN; a later call changes nothing.
CloseCodeSent(s, sent, code) == IF s = "OPEN" THEN code ELSE sent

\* SenderDelay without the special case of the first retry.
SenderDelayNoFirst(rc) ==
    IF (3 ^ rc) * 500 > 5000 * (2 ^ rc)
    THEN 5000 * TicksPerMs
    ELSE ((3 ^ rc) * 500 * TicksPerMs) \div (2 ^ rc)

\* const delay = retryCount === 0 ? 200 : Math.min(Math.pow(1.5, retryCount) * 500, 5000)
SenderDelay(rc) ==
    IF rc = 0
    THEN 200 * TicksPerMs
    ELSE IF (3 ^ rc) * 500 > 5000 * (2 ^ rc)
         THEN 5000 * TicksPerMs
         ELSE ((3 ^ rc) * 500 * TicksPerMs) \div (2 ^ rc)

SenderInit ==
    /\ connectionCounter = 0
    /\ activeConnections = {}
    /\ phase = [c \in Conns |-> "none"]
    /\ retryCount = [c \in Conns |-> 0]
    /\ timerDelay = [c \in Conns |-> 0]
    /\ wsState = [c \in Conns |-> "NONE"]
    /\ sock = [c \in Conns |-> "none"]
    /\ pendingWrites = [c \in Conns |-> <<>>]
    /\ isWriting = [c \in Conns |-> FALSE]
    /\ drainH = [c \in Conns |-> <<>>]
    /\ immediates = [c \in Conns |-> 0]
    /\ needDrain = [c \in Conns |-> FALSE]
    /\ wsTimeout = [c \in Conns |-> "none"]
    /\ recv = [c \in Conns |-> <<>>]
    /\ pushed = [c \in Conns |-> <<>>]
    /\ wlog = [c \in Conns |-> <<>>]
    /\ blockedWrite = [c \in Conns |-> FALSE]
    /\ wsClose = [c \in Conns |-> 0]
    /\ localActivity = [c \in Conns |-> FALSE]
    /\ idleClosed = [c \in Conns |-> "no"]
    /\ closeSent = [c \in Conns |-> 0]
    /\ sentOn = [c \in Conns |-> {}]

\* net.createServer((socket) => { ... }): a local connection is accepted and
\* connectWithRetry() starts the first relayedConnect.
Accept ==
    /\ connectionCounter < MaxConns
    /\ LET c == connectionCounter + 1 IN
       /\ connectionCounter' = c
       /\ phase' = [phase EXCEPT ![c] = "connecting"]
       /\ retryCount' = [retryCount EXCEPT ![c] = 0]
       /\ sock' = [sock EXCEPT ![c] = "open"]
    /\ UNCHANGED <<activeConnections, timerDelay, wsState, pendingWrites, isWriting,
                   drainH, immediates, needDrain, wsTimeout, recv, pushed, wlog,
                   blockedWrite, wsClose, localActivity, idleClosed>>
    /\ UNCHANGED closeSent
    /\ UNCHANGED notSender

\* The same callback, for up to MaxSessions local connections.
AcceptSession ==
    /\ connectionCounter < MaxSessions
    /\ LET c == connectionCounter + 1 IN
       /\ connectionCounter' = c
       /\ phase' = [phase EXCEPT ![c] = "connecting"]
       /\ retryCount' = [retryCount EXCEPT ![c] = 0]
       /\ sock' = [sock EXCEPT ![c] = "open"]
    /\ UNCHANGED <<activeConnections, timerDelay, wsState, pendingWrites, isWriting,
                   drainH, immediates, needDrain, wsTimeout, recv, pushed, wlog,
                   blockedWrite, wsClose, localActivity, idleClosed, closeSent>>
    /\ UNCHANGED notSender

\* socket.end(): a writable socket starts ending; otherwise nothing changes.
SockEnd(s) == IF s = "open" THEN "ending" ELSE s
\* socket.destroy(): a socket that has not closed is destroyed.
SockDestroy(s) == IF s \in {"open", "ending", "finished", "errored"} THEN "destroyed" ELSE s
\* socket.destroy(err): as destroy, and the socket emits 'error' before 'close'.
SockDestroyErr(s) == IF s \in {"open", "ending", "finished"} THEN "errored" ELSE s

\* The error callback of relayedConnect, or the catch block around it (the two
\* differ only in a delete of an id that is not registered yet): retry after
\* a delay, or give up.
ConnectFail(c) ==
    /\ phase[c] = "connecting"
    /\ IF retryCount[c] < maxRetries
       THEN /\ phase' = [phase EXCEPT ![c] = "waiting"]
            /\ timerDelay' = [timerDelay EXCEPT ![c] = SenderDelay(retryCount[c])]
            /\ UNCHANGED <<sock, activeConnections>>
       ELSE /\ phase' = [phase EXCEPT ![c] = "gaveUp"]
            /\ sock' = [sock EXCEPT ![c] = SockEnd(@)]
            /\ activeConnections' = activeConnections \ {c}
            /\ UNCHANGED timerDelay
    /\ UNCHANGED <<connectionCounter, retryCount, wsState, queueVars, wsTimeout, recv,
                   pushed, wsClose, localActivity, idleClosed>>
    /\ UNCHANGED closeSent
    /\ UNCHANGED notSender

\* setTimeout(() => connectWithRetry(retryCount + 1, maxRetries), delay) fires.
RetryTimer(c) ==
    /\ phase[c] = "waiting"
    /\ phase' = [phase EXCEPT ![c] = "connecting"]
    /\ retryCount' = [retryCount EXCEPT ![c] = @ + 1]
    /\ timerDelay' = [timerDelay EXCEPT ![c] = 0]
    /\ UNCHANGED <<connectionCounter, activeConnections, wsState, sock, queueVars,
                   wsTimeout, recv, pushed, wsClose, localActivity,
                   idleClosed>>
    /\ UNCHANGED closeSent
    /\ UNCHANGED notSender

\* The success callback of relayedConnect: setupWebSocketHandlers(ws). The
\* retry arguments are dead from here on and are cleared.
ConnectOk(c) ==
    /\ phase[c] = "connecting"
    /\ phase' = [phase EXCEPT ![c] = "connected"]
    /\ retryCount' = [retryCount EXCEPT ![c] = 0]
    /\ activeConnections' = activeConnections \cup {c}
    /\ wsState' = [wsState EXCEPT ![c] = "OPEN"]
    /\ wsTimeout' = [wsTimeout EXCEPT ![c] = "armed"]
    /\ UNCHANGED <<connectionCounter, timerDelay, sock, queueVars, recv, pushed,
                   wsClose, localActivity, idleClosed>>
    /\ UNCHANGED closeSent
    /\ UNCHANGED notSender

\* socket.on('data', (data) => ws.send(data)) of setupWebSocketHandlers. The
\* handler keeps no state of its own, restarts no timer and does not look at
\* ws.readyState; a further 'data' event in the same readyState leaves the
\* state as the first one did.
SocketData(c) ==
    /\ phase[c] = "connected"
    /\ sock[c] \in {"open", "ending", "finished"}
    /\ ~localActivity[c] \/ wsState[c] \notin sentOn[c]
    /\ localActivity' = [localActivity EXCEPT ![c] = TRUE]
    /\ sentOn' = [sentOn EXCEPT ![c] = @ \cup {wsState[c]}]
    /\ UNCHANGED <<connectionCounter, activeConnections, retryVars, wsState, sock,
                   queueVars, wsTimeout, recv, pushed, wsClose, idleClosed>>
    /\ UNCHANGED closeSent
    /\ UNCHANGED <<reconnectTimers, clientVars, listenerVars, parseVars, shutdownVars,
                   healthVars, commandVars, serverVars, agentVars>>

\* ws.on('message', (data) => { ... }): queue the chunks, then processWriteQueue().
WsMessage(c, len) ==
    /\ phase[c] = "connected"
    /\ wsState[c] \in {"OPEN", "CLOSING"}
    /\ Len(recv[c]) < MaxMsgs
    /\ LET m == Len(recv[c]) + 1
           chunks == ChunksOf(m, len)
       IN  /\ recv' = [recv EXCEPT ![c] = Append(@, len)]
           /\ pushed' = [pushed EXCEPT ![c] = @ \o chunks]
           /\ \E r \in processWriteQueue([Q(c) EXCEPT !.pw = @ \o chunks]) : StoreQ(c, r)
    /\ UNCHANGED <<connectionCounter, activeConnections, retryVars, wsState, wsTimeout,
                   wsClose, localActivity, idleClosed>>
    /\ UNCHANGED closeSent
    /\ UNCHANGED notSender

\* The local socket emits 'drain': every once('drain') listener runs.
Drain(c) ==
    /\ sock[c] = "open"
    /\ needDrain[c]
    /\ \E r \in RunDrain(drainH[c], [Q(c) EXCEPT !.drainH = <<>>, !.need = FALSE]) :
          StoreQ(c, r)
    /\ UNCHANGED <<connectionCounter, activeConnections, retryVars, wsState, wsTimeout,
                   recv, pushed, wsClose, localActivity, idleClosed>>
    /\ UNCHANGED closeSent
    /\ UNCHANGED notSender

\* A setImmediate(processWriteQueue) callback runs.
Immediate(c) ==
    /\ immediates[c] > 0
    /\ \E r \in processWriteQueue([Q(c) EXCEPT !.imm = @ - 1]) : StoreQ(c, r)
    /\ UNCHANGED <<connectionCounter, activeConnections, retryVars, wsState, wsTimeout,
                   recv, pushed, wsClose, localActivity, idleClosed>>
    /\ UNCHANGED closeSent
    /\ UNCHANGED notSender

\* WsCloseHandler destroying the socket whatever the code.
WsCloseHandlerAlwaysDestroy(c, code) ==
    /\ sock' = [sock EXCEPT ![c] = SockDestroy(@)]
    /\ activeConnections' = activeConnections \ {c}
    /\ wsTimeout' = [wsTimeout EXCEPT ![c] = IF @ = "armed" THEN "cleared" ELSE @]

\* ws.on('close', (code, reason) => { ... }) and ws.on('close', () =>
\* clearTimeout(wsTimeout)) of setupWebSocketHandlers.
WsCloseHandler(c, code) ==
    /\ IF code = 1000
       THEN /\ sock' = [sock EXCEPT ![c] = SockEnd(@)]
       ELSE /\ sock' = [sock EXCEPT ![c] = SockDestroy(@)]
    /\ activeConnections' = activeConnections \ {c}
    /\ wsTimeout' = [wsTimeout EXCEPT ![c] = IF @ = "armed" THEN "cleared" ELSE @]

WsClose(c, code) ==
    /\ phase[c] = "connected"
    /\ wsState[c] \in {"OPEN", "CLOSING"}
    /\ wsState' = [wsState EXCEPT ![c] = "CLOSED"]
    /\ wsClose' = [wsClose EXCEPT ![c] = code]
    /\ WsCloseHandler(c, code)
    /\ UNCHANGED <<connectionCounter, retryVars, queueVars, recv, pushed,
                   localActivity, idleClosed>>
    /\ UNCHANGED closeSent
    /\ UNCHANGED notSender

\* ws.on('error', (err) => { socket.destroy(...); activeConnections.delete(...) })
WsError(c) ==
    /\ phase[c] = "connected"
    /\ wsState[c] \in {"OPEN", "CLOSING"}
    /\ sock' = [sock EXCEPT ![c] = SockDestroyErr(@)]
    /\ activeConnections' = activeConnections \ {c}
    /\ UNCHANGED <<connectionCounter, retryVars, wsState, queueVars, wsTimeout, recv,
                   pushed, wsClose, localActivity, idleClosed>>
    /\ UNCHANGED closeSent
    /\ UNCHANGED notSender

\* The callback of const wsTimeout = setTimeout(..., 30000).
WsTimeoutFire(c) ==
    /\ wsTimeout[c] = "armed"
    /\ wsTimeout' = [wsTimeout EXCEPT ![c] = "fired"]
    /\ IF wsState[c] = "OPEN"
       THEN /\ wsState' = [wsState EXCEPT ![c] = "CLOSING"]
            /\ closeSent' = [closeSent EXCEPT ![c] = 1000]
            /\ idleClosed' = [idleClosed EXCEPT ![c] =
                                 IF localActivity[c] THEN "active" ELSE "idle"]
       ELSE UNCHANGED <<wsState, idleClosed, closeSent>>
    /\ UNCHANGED <<connectionCounter, activeConnections, retryVars, sock, queueVars,
                   recv, pushed, wsClose, localActivity>>
    /\ UNCHANGED notSender

\* After socket.end() the writes the socket had accepted are flushed and its
\* write side ends.
SocketFinish(c) ==
    /\ sock[c] = "ending"
    /\ sock' = [sock EXCEPT ![c] = "finished"]
    /\ UNCHANGED <<connectionCounter, activeConnections, retryVars, wsState, queueVars,
                   wsTimeout, recv, pushed, wsClose, localActivity,
                   idleClosed>>
    /\ UNCHANGED closeSent
    /\ UNCHANGED notSender

\* SocketError closing the relay side with the normal code.
SocketErrorNormalCode(c) ==
    /\ sock[c] \in {"open", "ending", "finished", "errored"}
    /\ sock' = [sock EXCEPT ![c] = "destroyed"]
    /\ IF c \in activeConnections
       THEN /\ wsState' = [wsState EXCEPT ![c] = WsCloseCall(@)]
            /\ closeSent' = [closeSent EXCEPT ![c] = CloseCodeSent(wsState[c], @, 1000)]
       ELSE UNCHANGED <<wsState, closeSent>>
    /\ activeConnections' = activeConnections \ {c}
    /\ UNCHANGED <<connectionCounter, retryVars, queueVars, wsTimeout, recv, pushed,
                   wsClose, localActivity, idleClosed>>
    /\ UNCHANGED notSender

\* socket.on('error', ...) of the connection callback: a network error, or the
\* error of a write after end.
SocketError(c) ==
    /\ sock[c] \in {"open", "ending", "finished", "errored"}
    /\ sock' = [sock EXCEPT ![c] = "destroyed"]
    /\ IF c \in activeConnections
       THEN /\ wsState' = [wsState EXCEPT ![c] = WsCloseCall(@)]
            /\ closeSent' = [closeSent EXCEPT ![c] = CloseCodeSent(wsState[c], @, 1011)]
       ELSE UNCHANGED <<wsState, closeSent>>
    /\ activeConnections' = activeConnections \ {c}
    /\ UNCHANGED <<connectionCounter, retryVars, queueVars, wsTimeout, recv, pushed,
                   wsClose, localActivity, idleClosed>>
    /\ UNCHANGED notSender

\* SocketClose emptying the whole activeConnections Map.
SocketCloseClearsAll(c) ==
    /\ sock[c] \in {"open", "ending", "finished", "destroyed"}
    /\ sock' = [sock EXCEPT ![c] = "closed"]
    /\ wsState' = [wsState EXCEPT ![c] = WsCloseCall(@)]
    /\ closeSent' = [closeSent EXCEPT ![c] = CloseCodeSent(wsState[c], @, 1000)]
    /\ activeConnections' = {}
    /\ UNCHANGED <<connectionCounter, retryVars, queueVars, wsTimeout, recv, pushed,
                   wsClose, localActivity, idleClosed>>
    /\ UNCHANGED notSender

\* The local socket emits 'close': socket.on('close', ...) of the connection
\* callback, then the one registered by the success callback of relayedConnect.
SocketClose(c) ==
    /\ sock[c] \in {"open", "ending", "finished", "destroyed"}
    /\ sock' = [sock EXCEPT ![c] = "closed"]
    /\ wsState' = [wsState EXCEPT ![c] = WsCloseCall(@)]
    /\ closeSent' = [closeSent EXCEPT ![c] = CloseCodeSent(wsState[c], @, 1000)]
    /\ activeConnections' = activeConnections \ {c}
    /\ UNCHANGED <<connectionCounter, retryVars, queueVars, wsTimeout, recv, pushed,
                   wsClose, localActivity, idleClosed>>
    /\ UNCHANGED notSender

Next ==
    \/ Accept
    \/ \E c \in Conns : ConnectFail(c)
    \/ \E c \in Conns : RetryTimer(c)
    \/ \E c \in Conns : ConnectOk(c)
    \/ \E c \in Conns : SocketData(c)
    \/ \E c \in Conns : \E len \in MsgSizes : WsMessage(c, len)
    \/ \E c \in Conns : Drain(c)
    \/ \E c \in Conns : Immediate(c)
    \/ \E c \in Conns : \E code \in CloseCodes : WsClose(c, code)
    \/ \E c \in Conns : WsError(c)
    \/ \E c \in Conns : WsTimeoutFire(c)
    \/ \E c \in Conns : SocketFinish(c)
    \/ \E c \in Conns : SocketError(c)
    \/ \E c \in Conns : SocketClose(c)

\* The sessions of several local connections side by side: every handler of
\* the Sender except the relay message path.
NextSessions ==
    \/ AcceptSession
    \/ \E c \in Conns : ConnectFail(c)
    \/ \E c \in Conns : RetryTimer(c)
    \/ \E c \in Conns : ConnectOk(c)
    \/ \E c \in Conns : SocketData(c)
    \/ \E c \in Conns : \E code \in CloseCodes : WsClose(c, code)
    \/ \E c \in Conns : WsError(c)
    \/ \E c \in Conns : WsTimeoutFire(c)
    \/ \E c \in Conns : SocketFinish(c)
    \/ \E c \in Conns : SocketError(c)
    \/ \E c \in Conns : SocketClose(c)

\* ------------------------------------------------------ the OpsBot client

\* NextDelay without the cap at maxRetryDelay.
NextDelayUncapped(d) == (d * 3) \div 2

\* delay = Math.min(delay * 1.5, config.connection.maxRetryDelay)
NextDelay(d) == Min((d * 3) \div 2, maxRetryDelay * TicksPerMs)

\* The condition under which the catch block of connectWithRetry throws.
LastAttempt(rc) == rc >= maxRetryCount - 1

ClientInit ==
    /\ cPc = "idle"
    /\ cRetry = 0
    /\ cDelay = 0
    /\ connected = FALSE
    /\ cAttempts = 0
    /\ cWaits = <<>>
    /\ cFailure = "none"
    /\ cRounds = 0

\* connectWithRetry() is entered: retryCount = 0, delay = initialRetryDelay, and
\* the first pass of the loop calls testConnectivity.
EnterConnectWithRetry ==
    /\ cRetry' = 0
    /\ cDelay' = initialRetryDelay * TicksPerMs
    /\ cAttempts' = 1
    /\ cWaits' = <<>>
    /\ cFailure' = "none"
    /\ cPc' = "tcp"

\* main() calls initializeConnection().
ClientStart ==
    /\ cPc = "idle"
    /\ EnterConnectWithRetry
    /\ UNCHANGED <<connected, cRounds>>
    /\ UNCHANGED notClient

\* await testConnectivity(host, port) rejects (socket 'timeout' or 'error'):
\* the catch block throws on the last attempt, else starts the wait.
TcpFail(kind) ==
    /\ cPc = "tcp"
    /\ cFailure' = kind
    /\ IF LastAttempt(cRetry)
       THEN /\ cPc' = "exhausted"
            /\ UNCHANGED cWaits
       ELSE /\ cPc' = "sleep"
            /\ cWaits' = Append(cWaits, cDelay)
    /\ UNCHANGED <<cRetry, cDelay, connected, cAttempts, cRounds>>
    /\ UNCHANGED notClient

\* The wait ends: delay and retryCount are updated and the loop tests again.
SleepDone ==
    /\ cPc = "sleep"
    /\ cDelay' = NextDelay(cDelay)
    /\ cRetry' = cRetry + 1
    /\ cAttempts' = cAttempts + 1
    /\ cPc' = "tcp"
    /\ UNCHANGED <<connected, cWaits, cFailure, cRounds>>
    /\ UNCHANGED notClient

\* testConnectivity resolves: connectWithRetry returns the promise of the
\* WebSocket connection. The promise is returned, not awaited, so the try
\* block has been left when it settles.
TcpOk ==
    /\ cPc = "tcp"
    /\ cPc' = "wsConnecting"
    /\ UNCHANGED <<cRetry, cDelay, connected, cAttempts, cWaits, cFailure, cRounds>>
    /\ UNCHANGED notClient

\* ws.on('open'): the probe is sent and its 5 s timer armed.
ClientWsOpen ==
    /\ cPc = "wsConnecting"
    /\ cPc' = "probe"
    /\ UNCHANGED <<cRetry, cDelay, connected, cAttempts, cWaits, cFailure, cRounds>>
    /\ UNCHANGED notClient

\* ws 'error', ws 'close' or the open timeout before the connection opened,
\* or one of those or the probe timeout after it: the promise rejects, which
\* rejects connectWithRetry; initializeConnection catches and returns false.
ClientWsFail(kind) ==
    /\ \/ cPc = "wsConnecting" /\ kind \in {"wsError", "wsClose", "openTimeout"}
       \/ cPc = "probe" /\ kind \in {"wsError", "wsClose", "probeTimeout"}
    /\ cPc' = "rejected"
    /\ cFailure' = kind
    /\ UNCHANGED <<cRetry, cDelay, connected, cAttempts, cWaits, cRounds>>
    /\ UNCHANGED notClient

\* handleProbeResponse sees probe_response: the promise resolves and
\* initializeConnection sets connected and installs its handlers.
ProbeOk ==
    /\ cPc = "probe"
    /\ cPc' = "connected"
    /\ connected' = TRUE
    /\ UNCHANGED <<cRetry, cDelay, cAttempts, cWaits, cFailure, cRounds>>
    /\ UNCHANGED notClient

\* ws.on('close') of initializeConnection: connected = false, reconnect in 5 s.
\* A close handler that drops the pending callbacks without calling them.
ClientConnCloseSilent ==
    /\ cPc = "connected"
    /\ connected' = FALSE
    /\ pendingCommands' = {}
    /\ cmdInFlight' = {}
    /\ reconnectTimers' = reconnectTimers + 1
    /\ cPc' = "reconnectWait"
    /\ UNCHANGED <<cRetry, cDelay, cAttempts, cWaits, cFailure, cRounds>>
    /\ UNCHANGED <<commandId, cmdTimers, cmdSettled, cmdRefused>>
    /\ UNCHANGED <<serverVars, agentVars, senderVars, listenerVars, parseVars, shutdownVars,
                   healthVars, sentOn>>

\* ws.on('close'): connected = false, every pending callback is called with
\* 'Connection closed' and deleted, the reconnect timer is set.  No response
\* arrives on the closed socket.
ClientConnClose ==
    /\ cPc = "connected"
    /\ connected' = FALSE
    /\ cmdSettled' = [id \in DOMAIN cmdSettled |->
                         IF id \in pendingCommands
                         THEN Append(cmdSettled[id], "Connection closed")
                         ELSE cmdSettled[id]]
    /\ pendingCommands' = {}
    /\ cmdInFlight' = {}
    /\ reconnectTimers' = reconnectTimers + 1
    /\ cPc' = "reconnectWait"
    /\ UNCHANGED <<cRetry, cDelay, cAttempts, cWaits, cFailure, cRounds>>
    /\ UNCHANGED <<commandId, cmdTimers, cmdRefused>>
    /\ UNCHANGED <<serverVars, agentVars, senderVars, listenerVars, parseVars, shutdownVars,
                   healthVars, sentOn>>

\* The 5 s reconnect timer fires: initializeConnection() again.
Reconnect ==
    /\ reconnectTimers > 0
    /\ cRounds < MaxReconnects
    /\ reconnectTimers' = reconnectTimers - 1
    /\ cRounds' = cRounds + 1
    /\ EnterConnectWithRetry
    /\ UNCHANGED connected
    /\ UNCHANGED <<senderVars, listenerVars, parseVars, shutdownVars, healthVars, sentOn,
                   commandVars, serverVars, agentVars>>

NextClient ==
    \/ ClientStart
    \/ \E kind \in {"tcpTimeout", "tcpError"} : TcpFail(kind)
    \/ SleepDone
    \/ TcpOk
    \/ ClientWsOpen
    \/ \E kind \in {"wsError", "wsClose", "openTimeout", "probeTimeout"} : ClientWsFail(kind)
    \/ ProbeOk
    \/ ClientConnClose
    \/ Reconnect

\* ------------------------------------------------------------ the Listener

\* Connection ids of the Listener: ++connectionCounter numbers them from 1.
LConns == 1..MaxListenerConns

\* Request paths, cut into the pieces the handler's string tests look at.
Paths == { <<"/", "app", ".js">>, <<"/", "webcomponents", ".js">>,
           <<"/", "serviceworker", ".js">>, <<"/", "style", ".css">>,
           <<"/", "index", ".html">>, <<"/", "app", ".js", "?v=1">> }

\* The extensions of /\.(js|css|png|jpg|gif|ico|woff|woff2|ttf|svg)/
StaticExtensions == {".js", ".css", ".png", ".jpg", ".gif", ".ico", ".woff", ".woff2",
                     ".ttf", ".svg"}

\* Header names of the responses the target sends (Node gives them lower-cased).
ResponseHeaders == { {"content-type", "connection", "transfer-encoding"} }

\* path.endsWith(suffix)
endsWith(p, suffix) == Len(p) > 0 /\ p[Len(p)] = suffix
\* path.includes(w), w a sequence of pieces
includes(p, w) == \E i \in 1..(Len(p) - Len(w) + 1) : SubSeq(p, i, i + Len(w) - 1) = w
\* options.path.match(/\.(js|css|...)/)
isStaticAsset(p) == \E i \in 1..Len(p) : p[i] \in StaticExtensions

isJsFile(p) == endsWith(p, ".js")
isCssFile(p) == endsWith(p, ".css")
isCoreJsFile(p) ==
    /\ isJsFile(p)
    /\ \/ includes(p, <<"webcomponents", ".js">>)
       \/ includes(p, <<"serviceworker", ".js">>)

\* The header lines of the relay message: the response's headers except
\* connection and transfer-encoding, and Cache-Control for a static asset.
headerLines(p, hs) ==
    (hs \ {"connection", "transfer-encoding"})
        \cup (IF isStaticAsset(p) THEN {"Cache-Control"} ELSE {})

\* What the callback of ws.send(fullResponse, (err) => ...) does next.
AfterSend(p, err) ==
    IF err THEN "none"
    ELSE IF isJsFile(p) /\ ~isCoreJsFile(p) THEN "close"
    ELSE IF isCoreJsFile(p) THEN "none"
    ELSE IF isCssFile(p) THEN "timer"
    ELSE "none"

\* Map.set(k, v) and Map.delete(k)
MapSet(m, k, v) == [x \in (DOMAIN m) \cup {k} |-> IF x = k THEN v ELSE m[x]]
MapDelete(m, k) == [x \in (DOMAIN m) \ {k} |-> m[x]]
EmptyMap == [x \in {} |-> 0]

RECURSIVE RequestCount(_)
RequestCount(S) ==
    IF S = {} THEN 0
    ELSE LET c == CHOOSE x \in S : TRUE IN Len(lReqs[c]) + RequestCount(S \ {c})

\* The process runs its handlers until process.exit.
ListenerRunning == exitCode = <<>>

ListenerInit ==
    /\ lConnectionCounter = 0
    /\ lActiveConnections = EmptyMap
    /\ lWs = [c \in LConns |-> "NONE"]
    /\ lReqs = [c \in LConns |-> <<>>]
    /\ lNow = 1
    /\ lSent = [c \in LConns |-> <<>>]
    /\ lCloseSent = [c \in LConns |-> 0]
    /\ lLastMsg = [c \in LConns |-> 0]
    /\ lSwept = {}
    /\ lThrew = {}
    /\ lOverwritten = {}
    /\ heartbeatInterval = TRUE
    /\ exitTimers = 0
    /\ exitCode = <<>>
    /\ shutdownClosed = {}

\* The connection callback of createRelayedServer: the id is taken, the entry
\* is stored, stored again without lastActivity (0: undefined), and the
\* handlers are installed.
ListenerAccept ==
    /\ ListenerRunning
    /\ lConnectionCounter < MaxListenerConns
    /\ LET c == lConnectionCounter + 1
           first == MapSet(lActiveConnections, c, [ws |-> c, lastActivity |-> lNow])
           second == MapSet(first, c, [ws |-> c, lastActivity |-> 0])
       IN  /\ lConnectionCounter' = c
           /\ lActiveConnections' = second
           /\ lOverwritten' = lOverwritten \cup ({c} \cap DOMAIN lActiveConnections)
                                           \cup ({c} \cap DOMAIN first)
           /\ lWs' = [lWs EXCEPT ![c] = "OPEN"]
           /\ lLastMsg' = [lLastMsg EXCEPT ![c] = lNow]
    /\ UNCHANGED <<lReqs, lNow, lSent, lCloseSent, lSwept, lThrew>>
    /\ UNCHANGED notListener

\* ws.on('message'): the request is parsed and https.request(options, ...) is
\* issued for its path. At most n requests are followed.
ListenerMessage(c, p, n) ==
    /\ ListenerRunning
    /\ lWs[c] \in {"OPEN", "CLOSING"}
    /\ RequestCount(LConns) < n
    /\ lReqs' = [lReqs EXCEPT ![c] =
                    Append(@, [path |-> p, st |-> "pending", headerLines |-> {},
                               chunks |-> 0])]
    /\ lLastMsg' = [lLastMsg EXCEPT ![c] = lNow]
    /\ UNCHANGED <<lConnectionCounter, lActiveConnections, lWs, lNow, lSent, lCloseSent,
                   lSwept, lThrew, lOverwritten>>
    /\ UNCHANGED notListener

\* The response callback of https.request: the header lines are built.
TargetResponse(c, r, hs) ==
    /\ ListenerRunning
    /\ r \in 1..Len(lReqs[c])
    /\ lReqs[c][r].st = "pending"
    /\ lReqs' = [lReqs EXCEPT ![c][r].st = "receiving",
                              ![c][r].headerLines = headerLines(lReqs[c][r].path, hs)]
    /\ UNCHANGED <<lConnectionCounter, lActiveConnections, lWs, lNow, lSent, lCloseSent,
                   lLastMsg, lSwept, lThrew, lOverwritten>>
    /\ UNCHANGED notListener

\* res.on('data'): the chunk is pushed to responseData.
TargetData(c, r) ==
    /\ ListenerRunning
    /\ r \in 1..Len(lReqs[c])
    /\ lReqs[c][r].st = "receiving"
    /\ lReqs[c][r].chunks < MaxChunks
    /\ lReqs' = [lReqs EXCEPT ![c][r].chunks = @ + 1]
    /\ UNCHANGED <<lConnectionCounter, lActiveConnections, lWs, lNow, lSent, lCloseSent,
                   lLastMsg, lSwept, lThrew, lOverwritten>>
    /\ UNCHANGED notListener

\* TargetEnd sending the header lines and the body as two relay messages.
TargetEndSplit(c, r) ==
    /\ ListenerRunning
    /\ r \in 1..Len(lReqs[c])
    /\ lReqs[c][r].st = "receiving"
    /\ IF lWs[c] = "OPEN"
       THEN /\ lSent' = [lSent EXCEPT ![c] =
                            @ \o << [req |-> r, kind |-> "response",
                                     headerLines |-> lReqs[c][r].headerLines,
                                     chunks |-> 0],
                                    [req |-> r, kind |-> "response", headerLines |-> {},
                                     chunks |-> lReqs[c][r].chunks] >>]
            /\ lReqs' = [lReqs EXCEPT ![c][r].st = "sent"]
       ELSE /\ lReqs' = [lReqs EXCEPT ![c][r].st = "dropped"]
            /\ UNCHANGED lSent
    /\ UNCHANGED <<lConnectionCounter, lActiveConnections, lWs, lNow, lCloseSent,
                   lLastMsg, lSwept, lThrew, lOverwritten>>
    /\ UNCHANGED notListener

\* res.on('end'): the whole response goes out in one ws.send if the relay
\* connection is OPEN, and is dropped with a warning otherwise.
TargetEnd(c, r) ==
    /\ ListenerRunning
    /\ r \in 1..Len(lReqs[c])
    /\ lReqs[c][r].st = "receiving"
    /\ IF lWs[c] = "OPEN"
       THEN /\ lSent' = [lSent EXCEPT ![c] =
                            Append(@, [req |-> r, kind |-> "response",
                                       headerLines |-> lReqs[c][r].headerLines,
                                       chunks |-> lReqs[c][r].chunks])]
            /\ lReqs' = [lReqs EXCEPT ![c][r].st = "sent"]
       ELSE /\ lReqs' = [lReqs EXCEPT ![c][r].st = "dropped"]
            /\ UNCHANGED lSent
    /\ UNCHANGED <<lConnectionCounter, lActiveConnections, lWs, lNow, lCloseSent,
                   lLastMsg, lSwept, lThrew, lOverwritten>>
    /\ UNCHANGED notListener

\* req.on('error'): an error text is sent if the relay connection is OPEN.
TargetError(c, r) ==
    /\ ListenerRunning
    /\ r \in 1..Len(lReqs[c])
    /\ lReqs[c][r].st = "pending"
    /\ IF lWs[c] = "OPEN"
       THEN /\ lSent' = [lSent EXCEPT ![c] =
                            Append(@, [req |-> r, kind |-> "error", headerLines |-> {},
                                       chunks |-> 0])]
            /\ lReqs' = [lReqs EXCEPT ![c][r].st = "errorSent"]
       ELSE /\ lReqs' = [lReqs EXCEPT ![c][r].st = "errorDropped"]
            /\ UNCHANGED lSent
    /\ UNCHANGED <<lConnectionCounter, lActiveConnections, lWs, lNow, lCloseSent,
                   lLastMsg, lSwept, lThrew, lOverwritten>>
    /\ UNCHANGED notListener

\* SendCallback closing after every kind of response.
SendCallbackCloseAll(c, r, err) ==
    /\ ListenerRunning
    /\ r \in 1..Len(lReqs[c])
    /\ lReqs[c][r].st = "sent"
    /\ lReqs' = [lReqs EXCEPT ![c][r].st = IF err THEN "sendFailed" ELSE "done"]
    /\ IF ~err
       THEN /\ lWs' = [lWs EXCEPT ![c] = WsCloseCall(@)]
            /\ lCloseSent' = [lCloseSent EXCEPT ![c] = CloseCodeSent(lWs[c], @, 1000)]
       ELSE UNCHANGED <<lWs, lCloseSent>>
    /\ UNCHANGED <<lConnectionCounter, lActiveConnections, lNow, lSent, lLastMsg,
                   lSwept, lThrew, lOverwritten>>
    /\ UNCHANGED notListener

\* The callback of ws.send(fullResponse, (err) => { ... }).
SendCallback(c, r, err) ==
    /\ ListenerRunning
    /\ r \in 1..Len(lReqs[c])
    /\ lReqs[c][r].st = "sent"
    /\ LET act == AfterSend(lReqs[c][r].path, err) IN
       /\ lReqs' = [lReqs EXCEPT ![c][r].st = IF err THEN "sendFailed"
                                              ELSE IF act = "timer" THEN "cssTimer"
                                              ELSE "done"]
       /\ IF act = "close"
          THEN /\ lWs' = [lWs EXCEPT ![c] = WsCloseCall(@)]
               /\ lCloseSent' = [lCloseSent EXCEPT ![c] = CloseCodeSent(lWs[c], @, 1000)]
          ELSE UNCHANGED <<lWs, lCloseSent>>
    /\ UNCHANGED <<lConnectionCounter, lActiveConnections, lNow, lSent, lLastMsg,
                   lSwept, lThrew, lOverwritten>>
    /\ UNCHANGED notListener

\* The callback of setTimeout(..., 100) after a CSS file.
CssTimer(c, r) ==
    /\ ListenerRunning
    /\ r \in 1..Len(lReqs[c])
    /\ lReqs[c][r].st = "cssTimer"
    /\ lReqs' = [lReqs EXCEPT ![c][r].st = "done"]
    /\ lWs' = [lWs EXCEPT ![c] = WsCloseCall(@)]
    /\ lCloseSent' = [lCloseSent EXCEPT ![c] = CloseCodeSent(lWs[c], @, 1000)]
    /\ UNCHANGED <<lConnectionCounter, lActiveConnections, lNow, lSent, lLastMsg,
                   lSwept, lThrew, lOverwritten>>
    /\ UNCHANGED notListener

\* ws.on('close', () => activeConnections.delete(connectionId))
ListenerWsClose(c) ==
    /\ ListenerRunning
    /\ lWs[c] \in {"OPEN", "CLOSING"}
    /\ lWs' = [lWs EXCEPT ![c] = "CLOSED"]
    /\ lActiveConnections' = MapDelete(lActiveConnections, c)
    /\ UNCHANGED <<lConnectionCounter, lReqs, lNow, lSent, lCloseSent, lLastMsg,
                   lSwept, lThrew, lOverwritten>>
    /\ UNCHANGED notListener

\* ws.on('error', (err) => activeConnections.delete(connectionId))
ListenerWsError(c) ==
    /\ ListenerRunning
    /\ lWs[c] \in {"OPEN", "CLOSING"}
    /\ lActiveConnections' = MapDelete(lActiveConnections, c)
    /\ UNCHANGED <<lConnectionCounter, lWs, lReqs, lNow, lSent, lCloseSent, lLastMsg,
                   lSwept, lThrew, lOverwritten>>
    /\ UNCHANGED notListener

\* sendHeartbeats deleting also the entries idle for a heartbeat interval.
sendHeartbeatsIdle(threw) ==
    /\ ListenerRunning
    /\ heartbeatInterval
    /\ lNow <= MaxSweeps
    /\ LET open == { c \in DOMAIN lActiveConnections : lWs[lActiveConnections[c].ws] = "OPEN" }
           kept == { c \in open \ threw : lLastMsg[c] = lNow }
       IN  /\ threw \subseteq open
           /\ lNow' = lNow + 1
           /\ lActiveConnections' =
                 [c \in kept |-> [lActiveConnections[c] EXCEPT !.lastActivity = lNow + 1]]
           /\ lThrew' = threw
           /\ lSwept' = lSwept \cup ((DOMAIN lActiveConnections) \ kept)
    /\ UNCHANGED <<lConnectionCounter, lWs, lReqs, lSent, lCloseSent, lLastMsg,
                   lOverwritten>>
    /\ UNCHANGED notListener

\* sendHeartbeats without the clean-up of the entries that are not OPEN.
sendHeartbeatsNoCleanup(threw) ==
    /\ ListenerRunning
    /\ heartbeatInterval
    /\ lNow <= MaxSweeps
    /\ LET open == { c \in DOMAIN lActiveConnections : lWs[lActiveConnections[c].ws] = "OPEN" }
           kept == (DOMAIN lActiveConnections) \ threw
       IN  /\ threw \subseteq open
           /\ lNow' = lNow + 1
           /\ lActiveConnections' =
                 [c \in kept |-> IF c \in open
                                 THEN [lActiveConnections[c] EXCEPT !.lastActivity = lNow + 1]
                                 ELSE lActiveConnections[c]]
           /\ lThrew' = threw
           /\ lSwept' = lSwept \cup ((DOMAIN lActiveConnections) \ kept)
    /\ UNCHANGED <<lConnectionCounter, lWs, lReqs, lSent, lCloseSent, lLastMsg,
                   lOverwritten>>
    /\ UNCHANGED notListener

\* setInterval(sendHeartbeats, HEARTBEAT_INTERVAL) fires: every entry whose
\* socket is OPEN is pinged and its lastActivity set; every other entry, and
\* every entry whose ping throws (the set threw), is deleted.
sendHeartbeats(threw) ==
    /\ ListenerRunning
    /\ heartbeatInterval
    /\ lNow <= MaxSweeps
    /\ LET open == { c \in DOMAIN lActiveConnections : lWs[lActiveConnections[c].ws] = "OPEN" }
           kept == open \ threw
       IN  /\ threw \subseteq open
           /\ lNow' = lNow + 1
           /\ lActiveConnections' =
                 [c \in kept |-> [lActiveConnections[c] EXCEPT !.lastActivity = lNow + 1]]
           /\ lThrew' = threw
           /\ lSwept' = lSwept \cup ((DOMAIN lActiveConnections) \ kept)
    /\ UNCHANGED <<lConnectionCounter, lWs, lReqs, lSent, lCloseSent, lLastMsg,
                   lOverwritten>>
    /\ UNCHANGED notListener

\* The Listener with its heartbeat.
NextListener ==
    \/ ListenerAccept
    \/ \E c \in LConns : \E p \in Paths : ListenerMessage(c, p, MaxSweepReqs)
    \/ \E c \in LConns : \E r \in 1..MaxReqs : \E hs \in ResponseHeaders :
          TargetResponse(c, r, hs)
    \/ \E c \in LConns : \E r \in 1..MaxReqs : TargetData(c, r)
    \/ \E c \in LConns : \E r \in 1..MaxReqs : TargetEnd(c, r)
    \/ \E c \in LConns : \E r \in 1..MaxReqs : TargetError(c, r)
    \/ \E c \in LConns : \E r \in 1..MaxReqs : \E err \in BOOLEAN : SendCallback(c, r, err)
    \/ \E c \in LConns : \E r \in 1..MaxReqs : CssTimer(c, r)
    \/ \E c \in LConns : ListenerWsClose(c)
    \/ \E c \in LConns : ListenerWsError(c)
    \/ \E threw \in SUBSET LConns : sendHeartbeats(threw)

\* The Listener's request handling between two heartbeats.
NextRequests ==
    \/ ListenerAccept
    \/ \E c \in LConns : \E p \in Paths : ListenerMessage(c, p, MaxReqs)
    \/ \E c \in LConns : \E r \in 1..MaxReqs : \E hs \in ResponseHeaders :
          TargetResponse(c, r, hs)
    \/ \E c \in LConns : \E r \in 1..MaxReqs : TargetData(c, r)
    \/ \E c \in LConns : \E r \in 1..MaxReqs : TargetEnd(c, r)
    \/ \E c \in LConns : \E r \in 1..MaxReqs : TargetError(c, r)
    \/ \E c \in LConns : \E r \in 1..MaxReqs : \E err \in BOOLEAN : SendCallback(c, r, err)
    \/ \E c \in LConns : \E r \in 1..MaxReqs : CssTimer(c, r)
    \/ \E c \in LConns : ListenerWsClose(c)
    \/ \E c \in LConns : ListenerWsError(c)

\* A SIGINT handler that closes the connections but keeps their entries.
ListenerSigintKeepsEntries ==
    /\ ListenerRunning
    /\ exitTimers < MaxSigints
    /\ LET open == { c \in DOMAIN lActiveConnections :
                        lWs[lActiveConnections[c].ws] = "OPEN" }
           sockets == { lActiveConnections[c].ws : c \in open }
       IN  /\ heartbeatInterval' = FALSE
           /\ lWs' = [c \in LConns |-> IF c \in sockets THEN WsCloseCall(lWs[c]) ELSE lWs[c]]
           /\ lCloseSent' = [c \in LConns |->
                                IF c \in sockets THEN CloseCodeSent(lWs[c], lCloseSent[c], 1000)
                                ELSE lCloseSent[c]]
           /\ shutdownClosed' = shutdownClosed \cup sockets
    /\ exitTimers' = exitTimers + 1
    /\ UNCHANGED <<lConnectionCounter, lActiveConnections, lReqs, lNow, lSent, lLastMsg,
                   lSwept, lThrew, lOverwritten, exitCode>>
    /\ UNCHANGED <<sentOn, senderVars, clientVars, parseVars, healthVars, commandVars,
                   reconnectTimers, serverVars, agentVars>>

\* process.on('SIGINT'): the interval is cleared, every registered connection
\* that is OPEN is sent close(1000, 'Server shutting down'), the registry is
\* cleared and the exit timer is set.  The handlers stay registered until the
\* timer calls process.exit(0).
ListenerSigint ==
    /\ ListenerRunning
    /\ exitTimers < MaxSigints
    /\ LET open == { c \in DOMAIN lActiveConnections :
                        lWs[lActiveConnections[c].ws] = "OPEN" }
           sockets == { lActiveConnections[c].ws : c \in open }
       IN  /\ heartbeatInterval' = FALSE
           /\ lWs' = [c \in LConns |-> IF c \in sockets THEN WsCloseCall(lWs[c]) ELSE lWs[c]]
           /\ lCloseSent' = [c \in LConns |->
                                IF c \in sockets THEN CloseCodeSent(lWs[c], lCloseSent[c], 1000)
                                ELSE lCloseSent[c]]
           /\ shutdownClosed' = shutdownClosed \cup sockets
    /\ lActiveConnections' = EmptyMap
    /\ exitTimers' = exitTimers + 1
    /\ UNCHANGED <<lConnectionCounter, lReqs, lNow, lSent, lLastMsg, lSwept, lThrew,
                   lOverwritten, exitCode>>
    /\ UNCHANGED <<sentOn, senderVars, clientVars, parseVars, healthVars, commandVars,
                   reconnectTimers, serverVars, agentVars>>

\* setTimeout(() => { process.exit(0) }, 1000).
ListenerExitTimer ==
    /\ ListenerRunning
    /\ exitTimers > 0
    /\ exitCode' = <<0>>
    /\ UNCHANGED <<heartbeatInterval, exitTimers, shutdownClosed>>
    /\ UNCHANGED <<sentOn, senderVars, clientVars, listenerVars, parseVars, healthVars,
                   commandVars, reconnectTimers, serverVars, agentVars>>

\* The Listener's connections, heartbeat and shutdown, without the requests.
NextShutdown ==
    \/ ListenerAccept
    \/ \E c \in LConns : ListenerWsClose(c)
    \/ \E c \in LConns : ListenerWsError(c)
    \/ \E threw \in SUBSET LConns : sendHeartbeats(threw)
    \/ ListenerSigint
    \/ ListenerExitTimer

\* ------------------------------------- the Listener's request parsing
\* A relay message is followed through the 'message' handler as text.  A
\* string is a sequence of tokens; the separators the code splits at, " " and
\* ": ", are tokens of their own, and "\r\n" is the boundary between the
\* elements of requestText, which is held as requestText.split('\r\n').

GITEA_HOST == <<"gitea.example">>
undefined == <<>>          \* like '', falsy; the handler only tests truthiness

\* String.prototype.split(sep): the pieces of s between the occurrences of sep.
RECURSIVE split(_, _)
split(s, sep) ==
    IF s = <<>> THEN << <<>> >>
    ELSE LET rest == split(Tail(s), sep) IN
         IF Head(s) = sep THEN << <<>> >> \o rest
         ELSE << <<Head(s)>> \o Head(rest) >> \o Tail(rest)

\* const [a, b] = arr: the element at a position, undefined beyond the end.
element(arr, i) == IF i <= Len(arr) THEN arr[i] ELSE undefined

\* String.prototype.toLowerCase over the header names of the model.
lowerCaseToken(t) ==
    CASE t = "Host" -> "host"
      [] t = "X-Forwarded-For" -> "x-forwarded-for"
      [] t = "X-Real-IP" -> "x-real-ip"
      [] t = "X-Forwarded-Proto" -> "x-forwarded-proto"
      [] t = "X-Forwarded-Host" -> "x-forwarded-host"
      [] t = "Accept" -> "accept"
      [] t = "X-Note" -> "x-note"
      [] t = "X-Body" -> "x-body"
      [] OTHER -> t
toLowerCase(s) == [i \in 1..Len(s) |-> lowerCaseToken(s[i])]

\* obj[key] || dflt.  (headers[key] = value is MapSet: the key is added or
\* its value replaced.)
lookup(obj, key, dflt) ==
    IF key \in DOMAIN obj /\ obj[key] # undefined THEN obj[key] ELSE dflt

\* The loop over the header lines: from line i to the first empty line.
RECURSIVE parseHeaders(_, _, _)
parseHeaders(requestLines, i, headers) ==
    IF i <= Len(requestLines) /\ requestLines[i] # <<>>
    THEN LET kv == split(requestLines[i], ": ")
             key == element(kv, 1)
             value == element(kv, 2)
         IN parseHeaders(requestLines, i + 1,
                IF key # undefined /\ value # undefined
                THEN MapSet(headers, key, value) ELSE headers)
    ELSE headers

\* A parser that falls back to the whole default frame when the first line
\* lacks a method or a path.
parseRequestDefaultFrame(requestLines) ==
    LET parts == split(requestLines[1], " ")
    IN IF element(parts, 1) = undefined \/ element(parts, 2) = undefined
       THEN [method |-> <<"GET">>, path |-> <<"/">>, headers |-> EmptyMap]
       ELSE [method |-> element(parts, 1),
             path |-> element(parts, 2),
             headers |-> parseHeaders(requestLines, 2, EmptyMap)]

\* The frame parsed from the message.  Nothing in the try block throws on a
\* string, so the catch branch with the whole default frame is never taken.
parseRequest(requestLines) ==
    LET requestLine == requestLines[1]
        parts == split(requestLine, " ")
        method == element(parts, 1)
        path == element(parts, 2)
    IN [method |-> IF method # undefined THEN method ELSE <<"GET">>,
        path |-> IF path # undefined THEN path ELSE <<"/">>,
        headers |-> parseHeaders(requestLines, 2, EmptyMap)]

\* ...spread: the keys of the second object are added to the first and replace
\* the values of the keys it already has.
spread(obj, more) ==
    [k \in DOMAIN obj \cup DOMAIN more |->
        IF k \in DOMAIN more THEN more[k] ELSE obj[k]]

FilteredNames == {<<"host">>, <<"x-forwarded-for">>, <<"x-real-ip">>}

clientAddress(headers) ==
    lookup(headers, <<"x-forwarded-for">>,
        lookup(headers, <<"x-real-ip">>, <<"127.0.0.1">>))

\* Options whose filter compares the incoming names as they are written.
buildOptionsExactNames(frame) ==
    LET fixed == [k \in {<<"Host">>, <<"X-Real-IP">>, <<"X-Forwarded-For">>,
                         <<"X-Forwarded-Proto">>, <<"X-Forwarded-Host">>} |->
                    IF k = <<"Host">> THEN GITEA_HOST
                    ELSE IF k = <<"X-Forwarded-Proto">> THEN <<"https">>
                    ELSE <<"127.0.0.1">>]
        kept == {k \in DOMAIN frame.headers : k \notin FilteredNames}
    IN [path |-> frame.path,
        method |-> frame.method,
        headers |-> spread(fixed, [k \in kept |-> frame.headers[k]])]

\* const options = { path, method, headers: { fixed keys, ...filtered } }.
buildOptions(frame) ==
    LET fixed == [k \in {<<"Host">>, <<"X-Real-IP">>, <<"X-Forwarded-For">>,
                         <<"X-Forwarded-Proto">>, <<"X-Forwarded-Host">>} |->
                    CASE k = <<"Host">> -> GITEA_HOST
                      [] k = <<"X-Real-IP">> -> clientAddress(frame.headers)
                      [] k = <<"X-Forwarded-For">> -> clientAddress(frame.headers)
                      [] k = <<"X-Forwarded-Proto">> -> <<"https">>
                      [] k = <<"X-Forwarded-Host">> ->
                             lookup(frame.headers, <<"host">>, GITEA_HOST)]
        kept == {k \in DOMAIN frame.headers : toLowerCase(k) \notin FilteredNames}
    IN [path |-> frame.path,
        method |-> frame.method,
        headers |-> spread(fixed, [k \in kept |-> frame.headers[k]])]

\* if (data.length > 0) req.write(data): the writes made to the request.
bodyWrites(message) == IF message # << <<>> >> THEN <<message>> ELSE <<>>

\* ---- the messages of the model
RequestLines ==
    { <<"GET", " ", "/a", " ", "HTTP/1.1">>,
      <<"POST">>,                       \* no path
      <<" ", "/x">>,                    \* no method
      <<>> }                            \* empty first line

HeaderLinesIn ==
    { <<"Host", ": ", "client.example">>,
      <<"host", ": ", "client.example">>,
      <<"X-Forwarded-For", ": ", "1.2.3.4">>,
      <<"x-forwarded-for", ": ", "1.2.3.4">>,
      <<"X-Real-IP", ": ", "5.6.7.8">>,
      <<"x-real-ip", ": ", "5.6.7.8">>,
      <<"X-Forwarded-Proto", ": ", "http">>,
      <<"Accept", ": ", "text/html">>,
      <<"Accept", ": ", "text/plain">>,
      <<"X-Note", ": ", "a", ": ", "b">> }

\* What follows the header lines: nothing, or the blank line and the body.
Bodies ==
    { <<>>,
      << <<>>, <<>> >>,
      << <<>>, <<"payload">> >>,
      << <<>>, <<"X-Body", ": ", "v">> >> }

HeaderLists == UNION { [1..n -> HeaderLinesIn] : n \in 0..MaxHeaderLines }

Messages ==
    { <<rl>> \o hl \o b : rl \in RequestLines, hl \in HeaderLists, b \in Bodies }

ParseInit ==
    /\ pPc = "listening"
    /\ requestText = << <<>> >>
    /\ httpRequest = [method |-> <<>>, path |-> <<>>, headers |-> EmptyMap]
    /\ options = [path |-> <<>>, method |-> <<>>, headers |-> EmptyMap]
    /\ written = <<>>

\* ws.on('message', (data) => ...) up to req.end(): the frame is parsed, the
\* options are built from it, the request is made and the message written.
MessageHandler(message) ==
    /\ pPc = "listening"
    /\ pPc' = "ended"
    /\ requestText' = message
    /\ httpRequest' = parseRequest(message)
    /\ options' = buildOptions(parseRequest(message))
    /\ written' = bodyWrites(message)
    /\ UNCHANGED notParse

NextParse == \E message \in Messages : MessageHandler(message)

\* ------------------------------------------------ the health-check wrapper
Environments == {"production", "development"}
Signals == {"SIGINT", "SIGTERM"}
HealthMethods == {"GET", "POST"}
HealthPaths == {"/", "/health"}

HealthInit ==
    /\ nodeEnv = "unset"
    /\ listenerProcess = "none"
    /\ hSignals = <<>>
    /\ hExitTimers = 0
    /\ hExitCode = <<>>
    /\ hFatal = FALSE
    /\ hResponses = <<>>

WrapperRunning == nodeEnv # "unset" /\ hExitCode = <<>>

\* listenerProcess.kill(): a signal to the child if it is still there.
kill(child) == IF child = "running" THEN "killed" ELSE child

\* The wrapper starts: the child is spawned and the server listens.
HealthStart(env) ==
    /\ nodeEnv = "unset"
    /\ nodeEnv' = env
    /\ listenerProcess' = "running"
    /\ UNCHANGED <<hSignals, hExitTimers, hExitCode, hFatal, hResponses>>
    /\ UNCHANGED notHealth

\* listenerProcess.on('close'): the child has exited, by itself or killed.
ChildClose ==
    /\ WrapperRunning
    /\ listenerProcess \in {"running", "killed"}
    /\ listenerProcess' = "closed"
    /\ hExitCode' = IF nodeEnv = "production" THEN <<1>> ELSE hExitCode
    /\ UNCHANGED <<nodeEnv, hSignals, hExitTimers, hFatal, hResponses>>
    /\ UNCHANGED notHealth

\* A health server that reports the state of the child.
HealthRequestChildAware(method, path) ==
    /\ WrapperRunning
    /\ Len(hResponses) < MaxHealthReqs
    /\ hResponses' = Append(hResponses,
            [method |-> method, path |-> path,
             status |-> IF listenerProcess = "running" THEN 200 ELSE 503,
             body |-> IF listenerProcess = "running" THEN "OK" ELSE "DOWN",
             child |-> listenerProcess])
    /\ UNCHANGED <<nodeEnv, listenerProcess, hSignals, hExitTimers, hExitCode, hFatal>>
    /\ UNCHANGED notHealth

\* http.createServer((req, res) => ...): 200 and 'OK' to any request.
HealthRequest(method, path) ==
    /\ WrapperRunning
    /\ Len(hResponses) < MaxHealthReqs
    /\ hResponses' = Append(hResponses,
            [method |-> method, path |-> path, status |-> 200, body |-> "OK",
             child |-> listenerProcess])
    /\ UNCHANGED <<nodeEnv, listenerProcess, hSignals, hExitTimers, hExitCode, hFatal>>
    /\ UNCHANGED notHealth

\* process.on('SIGTERM') and process.on('SIGINT'): the same two statements.
HealthSignal(sig) ==
    /\ WrapperRunning
    /\ Len(hSignals) < MaxSignals
    /\ hSignals' = Append(hSignals, sig)
    /\ listenerProcess' = kill(listenerProcess)
    /\ hExitTimers' = hExitTimers + 1
    /\ UNCHANGED <<nodeEnv, hExitCode, hFatal, hResponses>>
    /\ UNCHANGED notHealth

\* setTimeout(() => process.exit(0), 1000).
HealthExitTimer ==
    /\ WrapperRunning
    /\ hExitTimers > 0
    /\ hExitCode' = <<0>>
    /\ UNCHANGED <<nodeEnv, listenerProcess, hSignals, hExitTimers, hFatal, hResponses>>
    /\ UNCHANGED notHealth

\* process.on('uncaughtException'): the child is killed, exit(1).
HealthUncaughtException ==
    /\ WrapperRunning
    /\ listenerProcess' = kill(listenerProcess)
    /\ hFatal' = TRUE
    /\ hExitCode' = <<1>>
    /\ UNCHANGED <<nodeEnv, hSignals, hExitTimers, hResponses>>
    /\ UNCHANGED notHealth

NextHealth ==
    \/ \E env \in Environments : HealthStart(env)
    \/ ChildClose
    \/ \E method \in HealthMethods : \E path \in HealthPaths : HealthRequest(method, path)
    \/ \E sig \in Signals : HealthSignal(sig)
    \/ HealthExitTimer
    \/ HealthUncaughtException

\* ------------------------------------------- the OpsBot client's commands
CommandInit ==
    /\ commandId = 1
    /\ pendingCommands = {}
    /\ cmdTimers = {}
    /\ cmdInFlight = {}
    /\ cmdSettled = [id \in 1..MaxCmds |-> <<>>]
    /\ cmdRefused = 0
    /\ reconnectTimers = 0

\* A sendCommand that takes the id before it looks at the connection.
sendCommandTakesId ==
    /\ IF ~connected
       THEN /\ cmdRefused < MaxRefused
            /\ commandId <= MaxCmds
            /\ cmdRefused' = cmdRefused + 1
            /\ commandId' = commandId + 1
            /\ UNCHANGED <<pendingCommands, cmdTimers, cmdInFlight, cmdSettled>>
       ELSE /\ commandId <= MaxCmds
            /\ commandId' = commandId + 1
            /\ pendingCommands' = pendingCommands \cup {commandId}
            /\ cmdInFlight' = cmdInFlight \cup {commandId}
            /\ cmdTimers' = cmdTimers \cup {commandId}
            /\ UNCHANGED <<cmdSettled, cmdRefused>>
    /\ UNCHANGED <<clientVars, notCommands>>

\* sendCommand: refused when not connected; otherwise the next id is taken,
\* its callback stored, the message sent and the 30 s timer set.  ws is set
\* before connected becomes true and never reset, so !ws adds nothing.
sendCommand ==
    /\ IF ~connected
       THEN /\ cmdRefused < MaxRefused
            /\ cmdRefused' = cmdRefused + 1
            /\ UNCHANGED <<commandId, pendingCommands, cmdTimers, cmdInFlight, cmdSettled>>
       ELSE /\ commandId <= MaxCmds
            /\ commandId' = commandId + 1
            /\ pendingCommands' = pendingCommands \cup {commandId}
            /\ cmdInFlight' = cmdInFlight \cup {commandId}
            /\ cmdTimers' = cmdTimers \cup {commandId}
            /\ UNCHANGED <<cmdSettled, cmdRefused>>
    /\ UNCHANGED <<clientVars, notCommands>>

\* A handler that calls the callback of an id whether or not it is pending.
CommandResponseAlways(id, success) ==
    /\ id \in cmdInFlight
    /\ cmdInFlight' = cmdInFlight \ {id}
    /\ cmdSettled' = [cmdSettled EXCEPT ![id] =
                          Append(@, IF success THEN "resolved" ELSE "failed")]
    /\ pendingCommands' = pendingCommands \ {id}
    /\ UNCHANGED <<commandId, cmdTimers, cmdRefused>>
    /\ UNCHANGED <<clientVars, notCommands>>

\* ws.on('message') for { type: 'command_response', id }: the callback of a
\* pending id is called with (data.error, data.result) and deleted.  The
\* server sets error in a failure response and result in a success response.
CommandResponse(id, success) ==
    /\ id \in cmdInFlight
    /\ cmdInFlight' = cmdInFlight \ {id}
    /\ IF id \in pendingCommands
       THEN /\ cmdSettled' = [cmdSettled EXCEPT ![id] =
                                 Append(@, IF success THEN "resolved" ELSE "failed")]
            /\ pendingCommands' = pendingCommands \ {id}
       ELSE UNCHANGED <<cmdSettled, pendingCommands>>
    /\ UNCHANGED <<commandId, cmdTimers, cmdRefused>>
    /\ UNCHANGED <<clientVars, notCommands>>

\* The 30 s timer of sendCommand: a pending id is deleted and rejected.
CommandTimeout(id) ==
    /\ id \in cmdTimers
    /\ cmdTimers' = cmdTimers \ {id}
    /\ IF id \in pendingCommands
       THEN /\ pendingCommands' = pendingCommands \ {id}
            /\ cmdSettled' = [cmdSettled EXCEPT ![id] = Append(@, "Command timed out")]
       ELSE UNCHANGED <<pendingCommands, cmdSettled>>
    /\ UNCHANGED <<commandId, cmdInFlight, cmdRefused>>
    /\ UNCHANGED <<clientVars, notCommands>>

\* The client's connection and its commands.
NextCommands ==
    \/ ClientStart
    \/ TcpOk
    \/ ClientWsOpen
    \/ ProbeOk
    \/ ClientConnClose
    \/ Reconnect
    \/ sendCommand
    \/ \E id \in 1..MaxCmds : \E success \in BOOLEAN : CommandResponse(id, success)
    \/ \E id \in 1..MaxCmds : CommandTimeout(id)

\* ------------------------------------------------------- the OpsBot server
SConns == 1..MaxServerConns
StaleAfter == 5 * 60 * 1000
SweepEvery == 60 * 1000

\* The messages a client can send: text that JSON.parse rejects, and objects
\* with a type and, for a command, a command name and an id.
ServerMessages ==
    { [type |-> "unparseable", command |-> "", id |-> 0],
      [type |-> "probe", command |-> "", id |-> 0],
      [type |-> "hello", command |-> "", id |-> 0],
      [type |-> "command", command |-> "ping", id |-> 1],
      [type |-> "command", command |-> "status", id |-> 2],
      [type |-> "command", command |-> "agents", id |-> 3],
      [type |-> "command", command |-> "restart", id |-> 4] }

\* processCommand: the result of a known command, a throw for any other.
processCommand(command) ==
    CASE command = "ping" -> [ok |-> TRUE, value |-> "pong"]
      [] command = "status" -> [ok |-> TRUE, value |-> "running"]
      [] command = "agents" -> [ok |-> TRUE, value |-> "agents"]
      [] OTHER -> [ok |-> FALSE, value |-> "Unknown command"]

\* The ws.send calls of the 'message' handler for one message.
repliesTo(m) ==
    IF m.type = "unparseable"
    THEN << [type |-> "error", id |-> 0, success |-> FALSE, value |-> "parse error"] >>
    ELSE IF m.type = "probe"
    THEN << [type |-> "probe_response", id |-> 0, success |-> TRUE, value |-> ""] >>
    ELSE IF m.type = "command"
    THEN << [type |-> "command_response", id |-> m.id,
             success |-> processCommand(m.command).ok,
             value |-> processCommand(m.command).value] >>
    ELSE << [type |-> "error", id |-> 0, success |-> FALSE,
             value |-> "Unknown message type"] >>

ServerInit ==
    /\ connections = EmptyMap
    /\ sWs = [c \in SConns |-> "NONE"]
    /\ sNow = 0
    /\ sLog = [c \in SConns |-> <<>>]
    /\ sRemoved = [c \in SConns |-> "none"]

RECURSIVE LogCount(_)
LogCount(S) ==
    IF S = {} THEN 0
    ELSE LET c == CHOOSE x \in S : TRUE IN Len(sLog[c]) + LogCount(S \ {c})
ServerMessageCount == LogCount(SConns)

\* The accept callback of createRelayedServer: a fresh connectionId, the
\* entry stored with lastActivity = now and isProbe = false.
ServerAccept(c) ==
    /\ sWs[c] = "NONE"
    /\ \A d \in SConns : d < c => sWs[d] # "NONE"
    /\ sWs' = [sWs EXCEPT ![c] = "OPEN"]
    /\ connections' = MapSet(connections, c, [lastActivity |-> sNow, isProbe |-> FALSE])
    /\ UNCHANGED <<sNow, sLog, sRemoved>>
    /\ UNCHANGED notServer

\* A 'message' handler that deletes the entry of a connection it cannot parse
\* a message of.
ServerMessageDropsBad(c, m) ==
    /\ sWs[c] \in {"OPEN", "CLOSING"}
    /\ ServerMessageCount < MaxServerMsgs
    /\ connections' =
          IF m.type = "unparseable" THEN MapDelete(connections, c)
          ELSE IF c \in DOMAIN connections
          THEN [connections EXCEPT ![c].lastActivity = sNow]
          ELSE connections
    /\ sLog' = [sLog EXCEPT ![c] =
                   Append(@, [msg |-> m,
                              replies |-> IF m.type = "unparseable" THEN <<>>
                                          ELSE repliesTo(m)])]
    /\ UNCHANGED <<sWs, sNow, sRemoved>>
    /\ UNCHANGED notServer

\* ws.on('message'): lastActivity of the entry, if there is one, is set to
\* now, isProbe is set by a probe, and the reply is sent.
ServerMessage(c, m) ==
    /\ sWs[c] \in {"OPEN", "CLOSING"}
    /\ ServerMessageCount < MaxServerMsgs
    /\ connections' =
          IF c \in DOMAIN connections
          THEN [connections EXCEPT ![c] =
                   [lastActivity |-> sNow,
                    isProbe |-> IF m.type = "probe" THEN TRUE ELSE @.isProbe]]
          ELSE connections
    /\ sLog' = [sLog EXCEPT ![c] = Append(@, [msg |-> m, replies |-> repliesTo(m)])]
    /\ UNCHANGED <<sWs, sNow, sRemoved>>
    /\ UNCHANGED notServer

\* ws.on('close'): connections.delete(connectionId).
ServerWsClose(c) ==
    /\ sWs[c] \in {"OPEN", "CLOSING"}
    /\ sWs' = [sWs EXCEPT ![c] = "CLOSED"]
    /\ connections' = MapDelete(connections, c)
    /\ sRemoved' = [sRemoved EXCEPT ![c] =
                       IF c \in DOMAIN connections THEN "close" ELSE @]
    /\ UNCHANGED <<sNow, sLog>>
    /\ UNCHANGED notServer

\* ws.on('error'): connections.delete(connectionId); the socket is left as it is.
ServerWsError(c) ==
    /\ sWs[c] \in {"OPEN", "CLOSING"}
    /\ connections' = MapDelete(connections, c)
    /\ sRemoved' = [sRemoved EXCEPT ![c] =
                       IF c \in DOMAIN connections THEN "error" ELSE @]
    /\ UNCHANGED <<sWs, sNow, sLog>>
    /\ UNCHANGED notServer

\* The entries a sweep at time now closes and deletes.
stale(now) == {c \in DOMAIN connections : now - connections[c].lastActivity > StaleAfter}

\* A sweep that also takes the connections that are exactly 5 minutes idle.
ServerSweepInclusive ==
    /\ sNow < MaxServerSweeps * SweepEvery
    /\ LET now == sNow + SweepEvery
           old == {c \in DOMAIN connections : now - connections[c].lastActivity >= StaleAfter}
       IN  /\ sNow' = now
           /\ sWs' = [c \in SConns |-> IF c \in old THEN WsCloseCall(sWs[c]) ELSE sWs[c]]
           /\ connections' = [c \in (DOMAIN connections) \ old |-> connections[c]]
           /\ sRemoved' = [c \in SConns |-> IF c \in old THEN "sweep" ELSE sRemoved[c]]
    /\ UNCHANGED sLog
    /\ UNCHANGED notServer

\* The setInterval callback of startConnectionCleanup, 60 s after the last:
\* every entry idle for more than 5 minutes has its socket closed and is
\* deleted.
ServerSweep ==
    /\ sNow < MaxServerSweeps * SweepEvery
    /\ LET now == sNow + SweepEvery
           old == stale(now)
       IN  /\ sNow' = now
           /\ sWs' = [c \in SConns |-> IF c \in old THEN WsCloseCall(sWs[c]) ELSE sWs[c]]
           /\ connections' = [c \in (DOMAIN connections) \ old |-> connections[c]]
           /\ sRemoved' = [c \in SConns |-> IF c \in old THEN "sweep" ELSE sRemoved[c]]
    /\ UNCHANGED sLog
    /\ UNCHANGED notServer

NextServer ==
    \/ \E c \in SConns : ServerAccept(c)
    \/ \E c \in SConns : \E m \in ServerMessages : ServerMessage(c, m)
    \/ \E c \in SConns : ServerWsClose(c)
    \/ \E c \in SConns : ServerWsError(c)
    \/ ServerSweep

\* ---------------------------------------------------- the deployment agent
TaskIds == 1..MaxTasks
TaskTypes == {"terraform_plan", "terraform_apply", "terraform_destroy", "unknown_type"}
KnownTaskTypes == {"terraform_plan", "terraform_apply", "terraform_destroy"}

AgentInit ==
    /\ agentStatus = "idle"
    /\ aTicks = 0
    /\ aPolls = 0
    /\ aTask = [t \in TaskIds |-> [pc |-> "none", type |-> "none"]]
    /\ deployments = EmptyMap
    /\ aReports = [t \in TaskIds |-> <<>>]

\* The positions at which processTask(t) has been called and has not returned.
Processing == {t \in TaskIds : aTask[t].pc \in {"awaitRunning", "executing", "awaitFinal"}}

\* setInterval(pollForTasks, pollInterval), up to the await: nothing when the
\* agent is not idle, otherwise the request GET /api/tasks/next is made.
pollTick ==
    /\ aTicks < MaxTicks
    /\ aTicks' = aTicks + 1
    /\ aPolls' = IF agentStatus # "idle" THEN aPolls ELSE aPolls + 1
    /\ UNCHANGED <<agentStatus, aTask, deployments, aReports>>
    /\ UNCHANGED notAgent

\* pollForTasks after the await, when the request fails or the response has
\* no task: a log line.
pollEmpty ==
    /\ aPolls > 0
    /\ aPolls' = aPolls - 1
    /\ UNCHANGED <<agentStatus, aTicks, aTask, deployments, aReports>>
    /\ UNCHANGED notAgent

\* pollForTasks after the await, when the response has a task: agentStatus =
\* 'busy' and processTask(task), which runs up to its first await, the
\* request of updateTaskStatus(task.id, 'running').  The server hands out a
\* task once.
pollTask(t, type) ==
    /\ aPolls > 0
    /\ aTask[t].pc = "none"
    /\ aPolls' = aPolls - 1
    /\ agentStatus' = "busy"
    /\ aTask' = [aTask EXCEPT ![t] = [pc |-> "awaitRunning", type |-> type]]
    /\ aReports' = [aReports EXCEPT ![t] = Append(@, "running")]
    /\ UNCHANGED <<aTicks, deployments>>
    /\ UNCHANGED notAgent

\* processTask after the first await (updateTaskStatus swallows a failed
\* request): the deployment is stored as running; an unknown type throws at
\* once, so the catch block marks it failed and reports 'failed'.
taskStarted(t) ==
    /\ aTask[t].pc = "awaitRunning"
    /\ IF aTask[t].type \in KnownTaskTypes
       THEN /\ deployments' = MapSet(deployments, t, "running")
            /\ aTask' = [aTask EXCEPT ![t].pc = "executing"]
            /\ UNCHANGED aReports
       ELSE /\ deployments' = MapSet(deployments, t, "failed")
            /\ aTask' = [aTask EXCEPT ![t].pc = "awaitFinal"]
            /\ aReports' = [aReports EXCEPT ![t] = Append(@, "failed")]
    /\ UNCHANGED <<agentStatus, aTicks, aPolls>>
    /\ UNCHANGED notAgent

\* The Terraform run of the task returns (ok) or throws: the deployment is
\* marked completed or failed and that status is reported.
taskExecuted(t, ok) ==
    /\ aTask[t].pc = "executing"
    /\ deployments' = IF t \in DOMAIN deployments
                      THEN [deployments EXCEPT ![t] = IF ok THEN "completed" ELSE "failed"]
                      ELSE deployments
    /\ aReports' = [aReports EXCEPT ![t] = Append(@, IF ok THEN "completed" ELSE "failed")]
    /\ aTask' = [aTask EXCEPT ![t].pc = "awaitFinal"]
    /\ UNCHANGED <<agentStatus, aTicks, aPolls>>
    /\ UNCHANGED notAgent

\* The last updateTaskStatus has settled, processTask returns and the then
\* callback of pollForTasks sets agentStatus = 'idle'.
taskReturned(t) ==
    /\ aTask[t].pc = "awaitFinal"
    /\ aTask' = [aTask EXCEPT ![t].pc = "done"]
    /\ agentStatus' = "idle"
    /\ UNCHANGED <<aTicks, aPolls, deployments, aReports>>
    /\ UNCHANGED notAgent

NextAgent ==
    \/ pollTick
    \/ pollEmpty
    \/ \E t \in TaskIds : \E type \in TaskTypes : pollTask(t, type)
    \/ \E t \in TaskIds : taskStarted(t)
    \/ \E t \in TaskIds : \E ok \in BOOLEAN : taskExecuted(t, ok)
    \/ \E t \in TaskIds : taskReturned(t)

\* ------------------------------------------------------- specifications

Init == SenderInit /\ ClientInit /\ ListenerInit /\ ParseInit /\ HealthInit
          /\ CommandInit /\ ServerInit /\ AgentInit

Spec == Init /\ [][Next]_vars

SpecClient == Init /\ [][NextClient]_vars

SpecSessions == Init /\ [][NextSessions]_vars

SpecListener == Init /\ [][NextListener]_vars

SpecRequests == Init /\ [][NextRequests]_vars
SpecParse == Init /\ [][NextParse]_vars
\* The exit timer is a setTimeout: once set it fires.
SpecCommands == Init /\ [][NextCommands]_vars
SpecServer == Init /\ [][NextServer]_vars
SpecAgent == Init /\ [][NextAgent]_vars
SpecHealth == Init /\ [][NextHealth]_vars
SpecShutdown == Init /\ [][NextShutdown]_vars /\ WF_vars(ListenerExitTimer)

\* ------------------------------------------------------------- properties

IsPrefix(a, b) == Len(a) <= Len(b) /\ \A i \in 1..Len(a) : a[i] = b[i]
Range(f) == { f[i] : i \in DOMAIN f }
CeilDiv(n, d) == (n + d - 1) \div d

\* The session's write queue is at rest: nothing queued, no write in progress,
\* no processWriteQueue scheduled.
QueueIdle(c) ==
    Len(pendingWrites[c]) = 0 /\ ~isWriting[c] /\ immediates[c] = 0 /\ drainH[c] = <<>>

\* C1: when every relay message of a session is shorter than the threshold,
\* the chunks written to the local socket are, in order and each exactly once,
\* the messages received: what has been written is always a prefix of what was
\* received, and all of it once the queue is at rest.
PassthroughFidelity ==
    \A c \in Conns :
        (\A i \in 1..Len(recv[c]) : recv[c][i] < MAX_BUFFER_SIZE)
            => /\ IsPrefix(wlog[c], pushed[c])
               /\ (QueueIdle(c) /\ sock[c] = "open" => wlog[c] = pushed[c])

\* C2: after a socket.write returned false no write is issued to that socket
\* before its 'drain' event, so two writes are never in progress at once.
NoWriteBeforeDrain == \A c \in Conns : ~blockedWrite[c]

\* The chunks appended to pendingWrites for message number m of session c.
PushedFor(c, m) == SelectSeq(pushed[c], LAMBDA ch : ch.m = m)

\* cs cuts the byte range [0, n) into consecutive non-empty pieces.
Contiguous(cs, n) ==
    /\ Len(cs) >= 1
    /\ cs[1].lo = 0
    /\ cs[Len(cs)].hi = n
    /\ \A k \in 1..Len(cs) : cs[k].lo < cs[k].hi
    /\ \A k \in 1..(Len(cs) - 1) : cs[k].hi = cs[k + 1].lo

\* C3: a message of size N above the threshold is queued as exactly
\* ceil(N / chunkSize) chunks, in offset order, whose concatenation is the
\* message; a message of at most the threshold is queued as one unsplit chunk.
ChunkingExact ==
    \A c \in Conns : \A m \in 1..Len(recv[c]) :
        LET n == recv[c][m]
            cs == PushedFor(c, m)
        IN  /\ Contiguous(cs, n)
            /\ IF n > MAX_BUFFER_SIZE
               THEN /\ Len(cs) = CeilDiv(n, MAX_BUFFER_SIZE \div 2)
                    /\ \A k \in 1..(Len(cs) - 1) :
                          cs[k].hi - cs[k].lo = MAX_BUFFER_SIZE \div 2
               ELSE Len(cs) = 1

\* C3 witness: a message just above the threshold has been queued as 3 chunks.
ChunkingWitness ==
    \E c \in Conns :
        /\ Len(recv[c]) >= 1
        /\ recv[c][1] = MAX_BUFFER_SIZE + 1
        /\ Len(PushedFor(c, 1)) = 3

\* Relay connect attempts made so far for connection c by connectWithRetry.
SenderAttempts(c) ==
    IF phase[c] \in {"connecting", "waiting", "gaveUp"} THEN retryCount[c] + 1 ELSE 0

\* C4: connectWithRetry makes at most 10 relay connect attempts for one local
\* connection, and gives up after the 10th failure.
SenderRetryBound ==
    \A c \in Conns :
        /\ SenderAttempts(c) <= maxRetries
        /\ phase[c] = "gaveUp" => SenderAttempts(c) = maxRetries

\* C5: a failure of connectWithRetry reaches the caller only after the 10th
\* failed attempt, whatever the kind of the failures.
ClientRetriesEveryFailure ==
    cPc \in {"rejected", "exhausted"} => cAttempts = maxRetryCount

\* d_1 = 200, d_{n+1} = min(d_n * 1.5, 5000), in ticks.
RECURSIVE BackoffD(_)
BackoffD(n) ==
    IF n = 1 THEN 200 * TicksPerMs ELSE Min((BackoffD(n - 1) * 3) \div 2, 5000 * TicksPerMs)

\* C6: in the client's connectWithRetry the wait before retry n is d_n; there
\* are never more than 10 attempts, and when it throws for exhaustion exactly
\* 10 attempts and 9 waits have been made.
ClientBackoff ==
    /\ \A n \in 1..Len(cWaits) : cWaits[n] = BackoffD(n)
    /\ cAttempts <= 10
    /\ cPc = "sleep" => Len(cWaits) = cAttempts
    /\ cPc = "tcp" => Len(cWaits) = cAttempts - 1
    /\ cPc = "exhausted" => cAttempts = 10 /\ Len(cWaits) = 9

\* C6 witness: the retries are exhausted and the 9th wait was the capped one.
ClientBackoffWitness ==
    cPc = "exhausted" /\ Len(cWaits) = 9 /\ cWaits[5] = 32400 /\ cWaits[9] = 160000

\* C7 as stated: every wait of the Sender's connectWithRetry follows d_n.
SenderBackoffClaimed ==
    \A c \in Conns : phase[c] = "waiting" => timerDelay[c] = BackoffD(retryCount[c] + 1)

\* The waits 200, 750, 1125, 1687.5, 2531.25, 3796.875, 5000, ... in ticks.
SenderWaits == <<6400, 24000, 36000, 54000, 81000, 121500, 160000>>

\* C7 as amended: the first wait is 200 ms and the wait after attempt k + 1
\* (k >= 1) is min(500 * 1.5^k, 5000) ms: 200, 750, 1125, 1687.5, 2531.25,
\* 3796.875 and 5000 from the 7th wait on.
SenderBackoffActual ==
    \A c \in Conns :
        phase[c] = "waiting"
            => timerDelay[c] = SenderWaits[Min(retryCount[c] + 1, Len(SenderWaits))]

\* C7 witness: the 7th wait, the first capped one, is pending.
SenderBackoffWitness ==
    \E c \in Conns : phase[c] = "waiting" /\ retryCount[c] = 6 /\ timerDelay[c] = 160000

\* C8: the relay 'close' event ends the local socket when the code is 1000 and
\* destroys it for any other code, and removes the session in both cases.
ClosePolicy ==
    [][\A c \in Conns :
         (wsClose[c] = 0 /\ wsClose'[c] # 0)
            => /\ c \notin activeConnections'
               /\ (wsClose'[c] = 1000 /\ sock[c] = "open" => sock'[c] = "ending")
               /\ (wsClose'[c] = 1000 /\ sock[c] # "open" => sock'[c] = sock[c])
               /\ (wsClose'[c] # 1000 /\ sock[c] \in {"open", "ending", "finished"}
                      => sock'[c] = "destroyed")]_vars

\* C8 witness: a normal relay close has ended an open socket.
ClosePolicyWitness ==
    \E c \in Conns :
        wsClose[c] = 1000 /\ sock[c] = "ending" /\ c \notin activeConnections

\* C9: after a normal relay close, when the socket's write side has ended every
\* chunk received before the close has been written to the socket.
FlushOnNormalClose ==
    \A c \in Conns :
        (wsClose[c] = 1000 /\ sock[c] = "finished")
            => \A i \in 1..Len(pushed[c]) : pushed[c][i] \in Range(wlog[c])

\* C10: the 30 s timer closes the relay side only of a session that had no
\* local activity since the timer was started.
IdleTimerOnlyWhenIdle == \A c \in Conns : idleClosed[c] # "active"

\* ---------------------------------------------- properties of the sessions

\* Ids registered in the Listener's activeConnections Map.
Registered == DOMAIN lActiveConnections

\* Heartbeat intervals a Listener connection has gone without a relay message.
IdleFor(c) == lNow - lLastMsg[c]

\* C11 as stated: a connection without a relay message for longer than the
\* idle threshold is removed by sendHeartbeats within one heartbeat interval,
\* so no registered connection has gone MaxSweeps intervals without a message.
ListenerIdleEviction == \A c \in Registered : IdleFor(c) < MaxSweeps

\* C11 as amended: sendHeartbeats removes exactly the connections whose relay
\* channel is not OPEN or whose ping throws; the time a connection has gone
\* without a relay message plays no part, an OPEN one is pinged and kept.
ListenerSweepIgnoresIdle ==
    [][lNow' # lNow
          => \A c \in Registered :
                 c \in DOMAIN lActiveConnections' <=> (lWs[c] = "OPEN" /\ c \notin lThrew')]_vars

\* C11 witness: after MaxSweeps sweeps a connection that never received a
\* message is still registered, and a sweep has removed one that was closing.
ListenerIdleKept ==
    /\ \E c \in Registered : lWs[c] = "OPEN" /\ Len(lReqs[c]) = 0 /\ IdleFor(c) >= MaxSweeps
    /\ \E d \in lSwept : lWs[d] = "CLOSING"

NoConnectAfterClose ==
    [][\A c \in Conns :
         sock[c] \in {"closed", "destroyed"}
            => ~(phase[c] = "waiting" /\ phase'[c] = "connecting")]_vars

\* C15: once the local socket of a session has closed and its id is not in
\* activeConnections, the id is never added to activeConnections again.
ClosedIsTerminal ==
    [][\A c \in Conns :
         (sock[c] = "closed" /\ c \notin activeConnections)
            => c \notin activeConnections']_vars

\* C16: each of the close and error handlers of a session, of the local socket
\* or of the relay channel, removes that session's entry and no other, and
\* changes nothing in the Map when the entry is already gone; an entry that
\* has been removed is never added again, so it is removed exactly once.
CloseIdempotent ==
    [][\A c \in Conns :
         /\ (\/ SocketClose(c)
             \/ SocketError(c)
             \/ WsError(c)
             \/ \E code \in CloseCodes : WsClose(c, code))
               => /\ activeConnections' = activeConnections \ {c}
                  /\ \A d \in Conns \ {c} : wsState'[d] = wsState[d] /\ sock'[d] = sock[d]
         /\ (phase[c] = "connected" /\ c \notin activeConnections)
               => c \notin activeConnections']_vars

\* C16 witness: the local close and the relay close of one session have both
\* fired, the session is gone, and another session is still registered.
CloseIdempotentWitness ==
    \E c \in Conns : \E d \in activeConnections :
        /\ c # d
        /\ sock[c] = "closed"
        /\ wsClose[c] # 0
        /\ phase[c] = "connected"
        /\ c \notin activeConnections

\* C17: an entry of activeConnections is never replaced by a later set under
\* the same id.
NoSilentOverwrite == lOverwritten = {}

\* -------------------------------------- properties of the Listener's requests

\* The relay messages sent back for request r of connection c.
MessagesFor(c, r) == SelectSeq(lSent[c], LAMBDA m : m.req = r)

\* The paths of the model that name a static asset, and the header lines of
\* the message that answers a request for path p.
StaticPaths == Paths \ { <<"/", "index", ".html">> }
ExpectedHeaderLines(p) ==
    {"content-type"} \cup (IF p \in StaticPaths THEN {"Cache-Control"} ELSE {})

\* C18 as stated: for every request the target has answered or failed,
\* exactly one relay message has been sent back, and a response holds the
\* response's headers without connection and transfer-encoding and the body.
OneMessagePerRequest ==
    \A c \in LConns : \A r \in 1..Len(lReqs[c]) :
        lReqs[c][r].st \notin {"pending", "receiving"}
            => /\ Len(MessagesFor(c, r)) = 1
               /\ MessagesFor(c, r)[1].kind = "response"
                     => /\ MessagesFor(c, r)[1].headerLines = {"content-type"}
                        /\ MessagesFor(c, r)[1].chunks = lReqs[c][r].chunks

\* The messages sent for each request, by the state of the request.
MessagesByState ==
    \A c \in LConns : \A r \in 1..Len(lReqs[c]) :
        LET ms == MessagesFor(c, r)
            q == lReqs[c][r]
        IN  /\ Len(ms) <= 1
            /\ q.st \in {"sent", "sendFailed", "cssTimer", "done"}
                  => /\ Len(ms) = 1
                     /\ ms[1].kind = "response"
                     /\ ms[1].headerLines = ExpectedHeaderLines(q.path)
                     /\ ms[1].chunks = q.chunks
            /\ q.st = "errorSent" => Len(ms) = 1 /\ ms[1].kind = "error"
            /\ q.st \in {"pending", "receiving", "dropped", "errorDropped"} => Len(ms) = 0

\* C18 as amended: at most one relay message is sent back for a request, never
\* two and never a split response. When the target's response ends and the
\* relay connection is OPEN the message is the status line, the response's
\* headers without connection and transfer-encoding (and Cache-Control for the
\* path of a static asset), a blank line and the whole body; when the target
\* request fails and the connection is OPEN it is one error text; when the
\* connection is not OPEN at that moment nothing is sent.
AtMostOneMessagePerRequest ==
    [][/\ MessagesByState'
       /\ \A c \in LConns : \A r \in 1..Len(lReqs[c]) :
             (lReqs[c][r].st \in {"pending", "receiving"}
                 /\ lReqs'[c][r].st \notin {"pending", "receiving"})
                => (lWs[c] = "OPEN" <=> Len(lSent'[c]) = Len(lSent[c]) + 1)]_vars

\* C18 witness: on one connection the response of one request was dropped
\* because the connection was no longer OPEN, and another request got its
\* one message, with a body chunk and the Cache-Control line.
OneMessageWitness ==
    \E c \in LConns : \E r1, r2 \in 1..Len(lReqs[c]) :
        /\ lReqs[c][r1].st = "dropped"
        /\ lReqs[c][r2].st \in {"sent", "done"}
        /\ Len(MessagesFor(c, r2)) = 1
        /\ MessagesFor(c, r2)[1].chunks = 1
        /\ MessagesFor(c, r2)[1].headerLines = {"content-type", "Cache-Control"}

\* C19: on one relay connection the responses are sent in the order in which
\* their requests arrived.
ResponsesInArrivalOrder ==
    \A c \in LConns : \A i, j \in 1..Len(lSent[c]) :
        (i < j /\ lSent[c][i].kind = "response" /\ lSent[c][j].kind = "response")
            => lSent[c][i].req < lSent[c][j].req

\* The paths of the model after whose response the connection is closed at
\* once, and after a delay.
CloseNowPaths == { <<"/", "app", ".js">> }
CloseLaterPaths == { <<"/", "style", ".css">> }

\* ws.close(1000, ...) has been applied to connection c in this step.
ClosedNormally(c) ==
    /\ lWs'[c] # "OPEN"
    /\ lWs[c] = "OPEN" => lWs'[c] = "CLOSING" /\ lCloseSent'[c] = 1000
    /\ lWs[c] # "OPEN" => lWs'[c] = lWs[c] /\ lCloseSent'[c] = lCloseSent[c]

Handled == pPc = "ended"
Separators == {" ", ": "}

\* The message as HTTP reads it: the head ends at the first empty line after
\* the request line, the body is what follows that line.
HeadEnd(m) ==
    IF \E i \in 2..Len(m) : m[i] = <<>>
    THEN CHOOSE i \in 2..Len(m) : m[i] = <<>> /\ \A j \in 2..(i - 1) : m[j] # <<>>
    ELSE Len(m) + 1
HeadLines(m) == 2..(HeadEnd(m) - 1)
BodyOf(m) == IF HeadEnd(m) <= Len(m) THEN SubSeq(m, HeadEnd(m) + 1, Len(m)) ELSE <<>>
IsHeaderLine(l) == Len(l) >= 3 /\ l[1] \notin Separators /\ l[2] = ": "
KeyOf(l) == <<l[1]>>
ValueOf(l) == SubSeq(l, 3, Len(l))
WellFormed(m) ==
    /\ Len(m[1]) = 5
    /\ m[1][2] = " " /\ m[1][4] = " "
    /\ \A i \in {1, 3, 5} : m[1][i] \notin Separators
    /\ HeadEnd(m) <= Len(m)
    /\ \A i \in HeadLines(m) : IsHeaderLine(m[i])
    /\ \A i, j \in HeadLines(m) : KeyOf(m[i]) = KeyOf(m[j]) => i = j

\* C21 (as claimed): for a well-formed request text (request line 'METHOD PATH
\* VERSION', 'Key: Value' lines with distinct keys, blank line) the parsed
\* frame has that method, that path and a header map holding exactly the
\* Key -> Value pairs of the lines before the blank line.
RequestParsing ==
    (Handled /\ WellFormed(requestText)) =>
        /\ httpRequest.method = <<requestText[1][1]>>
        /\ httpRequest.path = <<requestText[1][3]>>
        /\ DOMAIN httpRequest.headers =
               {KeyOf(requestText[i]) : i \in HeadLines(requestText)}
        /\ \A i \in HeadLines(requestText) :
               httpRequest.headers[KeyOf(requestText[i])] = ValueOf(requestText[i])

MethodOf(m) == element(split(m[1], " "), 1)
PathOf(m) == element(split(m[1], " "), 2)
LacksMethodOrPath(m) == MethodOf(m) = <<>> \/ PathOf(m) = <<>>
DefaultFrame == [method |-> <<"GET">>, path |-> <<"/">>, headers |-> EmptyMap]

WrittenText == IF written = <<>> THEN <<>> ELSE written[1]
EmptyText(t) == t \in {<<>>, << <<>> >>}

\* C23 (as claimed): what is written to the target request as its body is
\* exactly the text after the blank line; the request line and the header
\* lines are never written as body.
ForwardedBody ==
    Handled =>
        \/ WrittenText = BodyOf(requestText)
        \/ EmptyText(WrittenText) /\ EmptyText(BodyOf(requestText))

\* C24 (as claimed): when a header name occurs on two header lines, the frame
\* keeps the value of the first of them.
DuplicateKeepsFirst ==
    Handled =>
        \A i, j \in HeadLines(requestText) :
            (/\ i < j
             /\ Len(requestText[i]) = 3 /\ IsHeaderLine(requestText[i])
             /\ Len(requestText[j]) = 3 /\ IsHeaderLine(requestText[j])
             /\ KeyOf(requestText[i]) = KeyOf(requestText[j]))
            => httpRequest.headers[KeyOf(requestText[i])] = ValueOf(requestText[i])

NamesLike(obj, name) == {k \in DOMAIN obj : toLowerCase(k) = name}

\* C25: whatever the letter case of the incoming names, the headers of the
\* target request hold exactly one Host, with the target host as its value,
\* exactly one X-Forwarded-For and exactly one X-Real-IP, and every incoming
\* header named otherwise (case-insensitively) is there with its own name and
\* value.
HeaderRewriting ==
    Handled =>
        /\ NamesLike(options.headers, <<"host">>) = {<<"Host">>}
        /\ options.headers[<<"Host">>] = GITEA_HOST
        /\ NamesLike(options.headers, <<"x-forwarded-for">>) = {<<"X-Forwarded-For">>}
        /\ NamesLike(options.headers, <<"x-real-ip">>) = {<<"X-Real-IP">>}
        /\ \A k \in DOMAIN httpRequest.headers :
               toLowerCase(k) \notin FilteredNames =>
                   /\ k \in DOMAIN options.headers
                   /\ options.headers[k] = httpRequest.headers[k]
HeaderRewritingWitness ==
    /\ Handled
    /\ DOMAIN httpRequest.headers = {<<"Host">>, <<"Accept">>}
    /\ options.headers[<<"Host">>] = GITEA_HOST
    /\ options.headers[<<"Accept">>] = httpRequest.headers[<<"Accept">>]

IncomingAddresses ==
    {httpRequest.headers[k] :
        k \in NamesLike(httpRequest.headers, <<"x-forwarded-for">>)
              \cup NamesLike(httpRequest.headers, <<"x-real-ip">>)}

\* C26 (as claimed): when the incoming request carries X-Forwarded-For or
\* X-Real-IP, in any letter case, with value v, the X-Real-IP and the
\* X-Forwarded-For sent to the target are v; they are 127.0.0.1 only when the
\* incoming request carries neither.
ClientAddressPropagation ==
    Handled =>
        /\ \A v \in IncomingAddresses :
               IncomingAddresses = {v} =>
                   /\ options.headers[<<"X-Real-IP">>] = v
                   /\ options.headers[<<"X-Forwarded-For">>] = v
        /\ IncomingAddresses = {} =>
               /\ options.headers[<<"X-Real-IP">>] = <<"127.0.0.1">>
               /\ options.headers[<<"X-Forwarded-For">>] = <<"127.0.0.1">>

\* C27 (as claimed): every X-Forwarded-Proto sent to the target has the value
\* https, also when the incoming request carries an X-Forwarded-Proto of its
\* own.
ForwardedProtoHttps ==
    Handled =>
        \A k \in NamesLike(options.headers, <<"x-forwarded-proto">>) :
            options.headers[k] = <<"https">>

\* ----------------------------------- properties of the Listener's shutdown
SigintStep == exitTimers' # exitTimers
ShutdownStep ==
    /\ SigintStep =>
          /\ \A c \in DOMAIN lActiveConnections :
                 lWs[lActiveConnections[c].ws] = "OPEN" =>
                     /\ lWs'[lActiveConnections[c].ws] = "CLOSING"
                     /\ lCloseSent'[lActiveConnections[c].ws] = 1000
                     /\ lActiveConnections[c].ws \in shutdownClosed'
          /\ ~heartbeatInterval'
          /\ lActiveConnections' = EmptyMap
          /\ exitTimers' > 0
          /\ exitCode' = <<>>
    /\ ~heartbeatInterval => (lNow' = lNow /\ ~heartbeatInterval')
    /\ exitCode' # exitCode => (exitTimers > 0 /\ exitCode' = <<0>>)

\* C28: the SIGINT handler sends close(1000, 'Server shutting down') to every
\* registered connection that is OPEN, stops the heartbeat (no sweep runs
\* afterwards), leaves the registry empty and sets the exit timer; the process
\* exits only through that timer, with code 0, and once SIGINT was handled it
\* does exit.
ListenerShutdown ==
    /\ [][ShutdownStep]_vars
    /\ (exitTimers > 0) ~> (exitCode = <<0>>)
ListenerShutdownWitness ==
    /\ exitCode = <<0>>
    /\ shutdownClosed # {}
    /\ \E c \in shutdownClosed : lCloseSent[c] = 1000
    /\ ~heartbeatInterval
    /\ lActiveConnections = EmptyMap

\* C34 (as claimed): once the SIGINT handler has run, no entry is added to
\* activeConnections before the process exits.
NoRegistrationAfterShutdown ==
    [][exitTimers > 0 =>
          DOMAIN lActiveConnections' \subseteq DOMAIN lActiveConnections]_vars

WrapperExitsZero ==
    (hSignals # <<>> /\ ~hFatal /\ hExitCode # <<>>) => hExitCode = <<0>>

\* ------------------------------- properties of the OpsBot client's commands
Sent == 1..(commandId - 1)
Outcomes == {"resolved", "failed", "Command timed out", "Connection closed"}

\* C30: of every command sent, resolve or reject is called at most once, by
\* the response, the failure response, the timeout or the close of the
\* connection; the command is pending exactly as long as that has not
\* happened, a pending command always has its timer running, and once it is
\* settled a response or a timeout for its id changes nothing.
CommandSettledOnce ==
    /\ pendingCommands \subseteq Sent
    /\ \A id \in Sent :
          /\ Len(cmdSettled[id]) <= 1
          /\ (id \in pendingCommands) <=> (cmdSettled[id] = <<>>)
          /\ id \in pendingCommands => id \in cmdTimers
          /\ \A i \in 1..Len(cmdSettled[id]) : cmdSettled[id][i] \in Outcomes
    /\ \A id \in (1..MaxCmds) \ Sent : cmdSettled[id] = <<>> /\ id \notin cmdTimers
CommandSettledWitness ==
    /\ commandId = 3
    /\ cmdSettled[1] = <<"Command timed out">>
    /\ 1 \notin cmdInFlight
    /\ cmdSettled[2] = <<"resolved">>
    /\ 2 \notin cmdTimers
    /\ pendingCommands = {}

\* ---------------------------- properties of the Sender's local -> relay path
\* C32 (as claimed): ws.send is only ever called on a relay channel that is
\* OPEN; local data that arrives once the channel is closing or closed is not
\* passed to ws.send.
SendOnlyWhenOpen == \A c \in Conns : sentOn[c] \subseteq {"OPEN"}

\* ------------------------- properties of the Listener's closing policy
Unanswered(c) ==
    {r \in 1..Len(lReqs[c]) : lReqs[c][r].st \in {"pending", "receiving"}}

\* C33 (as claimed): the Listener does not start closing a relay connection
\* (after the response to a JavaScript or CSS request) while another request
\* received on that connection has not had its response sent.
NoCloseWhileUnanswered ==
    [][\A c \in LConns :
          (lWs[c] = "OPEN" /\ lWs'[c] = "CLOSING") => Unanswered(c) = {}]_vars

\* ------------------------------ properties of the OpsBot client's reconnect
ConnectionClosedStep == connected /\ ~connected'
ClientCloseStep ==
    /\ ConnectionClosedStep =>
          /\ \A id \in pendingCommands :
                 cmdSettled'[id] = Append(cmdSettled[id], "Connection closed")
          /\ \A id \in (1..MaxCmds) \ pendingCommands : cmdSettled'[id] = cmdSettled[id]
          /\ pendingCommands' = {}
          /\ reconnectTimers' = reconnectTimers + 1
    /\ reconnectTimers' <= 1
    /\ reconnectTimers' > 0 => (cPc' = "reconnectWait" /\ ~connected')
    /\ reconnectTimers' > reconnectTimers => ConnectionClosedStep
    /\ cRounds' # cRounds => (reconnectTimers = 1 /\ reconnectTimers' = 0)
    /\ connected' => cPc' = "connected"

\* C35: when the established connection closes, connected becomes false,
\* every command pending at that moment is rejected with 'Connection closed',
\* pendingCommands becomes empty and one reconnect timer is set; there is never
\* more than one reconnect timer, a reconnect starts only from that timer and
\* only while no connection is being made or is established.
ClientCloseAndReconnect == [][ClientCloseStep]_vars
ClientCloseAndReconnectWitness ==
    /\ cRounds = 1
    /\ cPc = "connected"
    /\ cmdSettled[1] = <<"Connection closed">>
    /\ 2 \in pendingCommands

\* C36: a sendCommand while connected is false is rejected with 'Not connected
\* to server' and changes nothing else: no id is taken, no callback stored,
\* nothing sent, no timer set; ids are only taken while connected.
RefusedCommandStep ==
    /\ cmdRefused' # cmdRefused =>
          /\ ~connected
          /\ cmdRefused' = cmdRefused + 1
          /\ UNCHANGED <<commandId, pendingCommands, cmdInFlight, cmdTimers, cmdSettled,
                         clientVars, reconnectTimers>>
    /\ commandId' # commandId => (connected /\ cmdRefused' = cmdRefused)
SendCommandNotConnected == [][RefusedCommandStep]_vars
SendCommandNotConnectedWitness ==
    /\ cmdRefused = 1
    /\ commandId = 2
    /\ ~connected
    /\ cmdSettled[1] = <<"Connection closed">>
    /\ pendingCommands = {}

\* ------------------------------------------ properties of the OpsBot server
KnownCommands == {"ping", "status", "agents"}
ExpectedReplyType(m) ==
    IF m.type = "probe" THEN "probe_response"
    ELSE IF m.type = "command" THEN "command_response"
    ELSE "error"
OneReplyEach ==
    \A c \in SConns : \A i \in 1..Len(sLog[c]) :
        LET m == sLog[c][i].msg
            replies == sLog[c][i].replies
        IN /\ Len(replies) = 1
           /\ replies[1].type = ExpectedReplyType(m)
           /\ m.type = "command" =>
                 /\ replies[1].id = m.id
                 /\ replies[1].success = (m.command \in KnownCommands)

\* C37: for every message received the server sends exactly one reply: a
\* probe_response for a probe, a command_response with the id of the request
\* for a command (success for ping, status and agents, failure for any other
\* command), an error for any other type and for text that is not JSON; and
\* the handling of a message removes no entry from connections.
ServerReplyDiscipline ==
    [][/\ OneReplyEach'
       /\ sLog' # sLog => DOMAIN connections' = DOMAIN connections]_vars
ServerReplyWitness ==
    /\ Len(sLog[1]) = 2
    /\ sLog[1][1].msg.type = "unparseable"
    /\ sLog[1][1].replies[1].type = "error"
    /\ sLog[1][2].msg.command = "restart"
    /\ sLog[1][2].replies[1].success = FALSE
    /\ 1 \in DOMAIN connections

SweepStep == sNow' # sNow
ServerSweepStep ==
    /\ SweepStep =>
          \A c \in DOMAIN connections :
              IF sNow' - connections[c].lastActivity > StaleAfter
              THEN c \notin DOMAIN connections' /\ sWs'[c] # "OPEN"
              ELSE /\ c \in DOMAIN connections'
                   /\ connections'[c] = connections[c]
                   /\ sWs'[c] = sWs[c]
    /\ DOMAIN connections' =
          {c \in SConns : sWs'[c] # "NONE" /\ sRemoved'[c] = "none"}

\* C38: a sweep closes and removes every connection whose last activity is
\* more than 5 minutes before it and leaves every other connection as it is;
\* after every event connections holds exactly the connections accepted and
\* not since closed, errored or swept.
ServerCleanup == [][ServerSweepStep]_vars
ServerCleanupWitness ==
    /\ sRemoved[1] = "sweep"
    /\ sWs[1] = "CLOSING"
    /\ 2 \in DOMAIN connections
    /\ sNow - connections[2].lastActivity = StaleAfter
    /\ Len(sLog[2]) > 0

\* -------------------------------------- properties of the deployment agent
\* C39 (as claimed): processTask is never running for two tasks at once,
\* whatever the order of the poll ticks and the poll responses.
OneTaskAtATime == Cardinality(Processing) <= 1

\* C40 (as claimed): every task started reports 'running' and then exactly
\* one of 'completed' and 'failed', its deployments entry ends with that
\* status, agentStatus is 'busy' whenever a task is being processed and is
\* 'idle' again once no task is.
TaskOutcome ==
    /\ \A t \in TaskIds :
          /\ aTask[t].pc = "none" => aReports[t] = <<>>
          /\ aTask[t].pc \in {"awaitRunning", "executing"} => aReports[t] = <<"running">>
          /\ aTask[t].pc \in {"awaitFinal", "done"} =>
                /\ Len(aReports[t]) = 2
                /\ aReports[t][1] = "running"
                /\ aReports[t][2] \in {"completed", "failed"}
                /\ t \in DOMAIN deployments
                /\ deployments[t] = aReports[t][2]
    /\ Processing # {} => agentStatus = "busy"
    /\ Processing = {} => agentStatus = "idle"

====
